---- MODULE Spec2Model ----
(***************************************************************************)
(* A model of the snapshot pipeline of src/server.ts: the quote/candle     *)
(* fetches of buildSnapshot and its pool of 15 workers, the snapshot store *)
(* (readSnapshot / writeSnapshot over the file system), the indicator      *)
(* functions, passesCondition and the two request handlers                 *)
(* GET /api/crypto/refresh and GET /api/crypto.                            *)
(*                                                                         *)
(* JavaScript runs one handler at a time between two awaits; an action is  *)
(* one such run.  The file system is modelled below the handler: a         *)
(* writeFileSync truncates the file, writes part of the data and then the  *)
(* rest, and the states in between are states of the disk (what a crash or *)
(* another process would find), although no handler runs in them.          *)
(*                                                                         *)
(* Numbers are exact rationals n/d (JavaScript's are IEEE doubles); a      *)
(* value is a record [k, s, n, d] with k in "num", "str", "null".          *)
(***************************************************************************)
EXTENDS Integers, Sequences, FiniteSets, Bags, TLC

\* ------------------------------------------------------------------ bounds

\* Requests (refresh or filter) the server receives in one behaviour.
MaxReqs == 2
\* The clock readings (new Date()) a behaviour can see: 1..MaxTime.
MaxTime == 2

\* ---------------------------------------------------------------- constants

\* const concurrency = 15
Concurrency == 15
\* calculateRSI's default period
RsiPeriod == 14
\* for (j = 0; j < dailyPrices.length; j += 30)
MonthlyStep == 30
\* if (dailyPrices.length < 2) continue
MinCloses == 2

\* ------------------------------------------------------------------- values

Abs(x) == IF x < 0 THEN -x ELSE x

RECURSIVE Gcd(_, _)
Gcd(a, b) == IF b = 0 THEN a ELSE Gcd(b, a % b)

\* The number n/d, in lowest terms with d > 0.
Num(n, d) ==
  LET g == Gcd(Abs(n), Abs(d))
      sg == IF d < 0 THEN -1 ELSE 1
  IN [k |-> "num", s |-> "", n |-> sg * (n \div g), d |-> sg * (d \div g)]

Int2Num(i) == [k |-> "num", s |-> "", n |-> i, d |-> 1]
Str(t) == [k |-> "str", s |-> t, n |-> 0, d |-> 1]
\* JavaScript's null: an absent indicator.
NULL == [k |-> "null", s |-> "", n |-> 0, d |-> 1]
\* What a JSON text can hold where a number is expected and none is there:
\* a missing field (undefined) or a string that is no number.
UNDEF == [k |-> "undef", s |-> "", n |-> 0, d |-> 1]
NotANumber(t) == [k |-> "nan", s |-> t, n |-> 0, d |-> 1]

RAdd(a, b) ==
  LET g == Gcd(a.d, b.d)
  IN Num(a.n * (b.d \div g) + b.n * (a.d \div g), (a.d \div g) * b.d)
RNeg(a) == [a EXCEPT !.n = -a.n]
RSub(a, b) == RAdd(a, RNeg(b))
RMul(a, b) ==
  LET g1 == Gcd(Abs(a.n), b.d)
      g2 == Gcd(Abs(b.n), a.d)
  IN Num((a.n \div g1) * (b.n \div g2), (a.d \div g2) * (b.d \div g1))
\* a / b for b # 0
RDiv(a, b) == RMul(a, Num(b.d, b.n))
RLt(a, b) == a.n * b.d < b.n * a.d
RLe(a, b) == a.n * b.d <= b.n * a.d
RGt(a, b) == RLt(b, a)
RGe(a, b) == RLe(b, a)

\* const safeNum = (v) => { const n = Number(v); return Number.isFinite(n) ? n : null; }
\* Number(null) and Number("") are 0; Number(undefined) and Number("abc") are NaN.
safeNum(v) ==
  CASE v.k = "num" -> v
    [] v.k = "null" -> Int2Num(0)
    [] v.k = "str" /\ v.s = "" -> Int2Num(0)
    [] OTHER -> NULL

\* ---------------------------------------------------------------- indicators

\* The loops below run over an index range lo..hi in order, the state of
\* the loop handed from each index to the next; the range is halved at each
\* call so that a loop over n indices nests about log n calls, not n.  Each
\* call looks at the state it is handed first (a state that is no number is
\* returned as it is), so the earlier half is computed before the later one
\* is entered.

RECURSIVE SumLoop(_, _, _, _)
\* prices.slice(0, period).reduce((acc, p) => acc + p, 0), indices lo..hi
SumLoop(prices, lo, hi, acc) ==
  IF acc.k # "num" \/ lo > hi THEN acc
  ELSE IF lo = hi THEN RAdd(acc, prices[lo])
  ELSE LET mid == (lo + hi) \div 2
       IN SumLoop(prices, mid + 1, hi, SumLoop(prices, lo, mid, acc))

\* Mutant: a series of exactly `period` prices has no average.
calculateMAOverPeriod(prices, period) ==
  IF Len(prices) <= period THEN NULL
  ELSE RDiv(SumLoop(prices, 1, period, Int2Num(0)), Int2Num(period))

\* calculateMA: the mean of the first `period` prices (the newest closes).
calculateMA(prices, period) ==
  IF Len(prices) < period THEN NULL
  ELSE RDiv(SumLoop(prices, 1, period, Int2Num(0)), Int2Num(period))

Reverse(s) == [i \in 1..Len(s) |-> s[Len(s) + 1 - i]]

\* closes[i] - closes[i - 1] of JavaScript's 0-based closes, for i >= 1
Change(closes, i) == RSub(closes[i + 1], closes[i])

RECURSIVE GainLossLoop(_, _, _, _)
\* for (i = 1; i <= period; i++): gainSum and lossSum, indices lo..hi
GainLossLoop(closes, lo, hi, sums) ==
  IF sums.gain.k # "num" \/ lo > hi THEN sums
  ELSE IF lo = hi
    THEN LET change == Change(closes, lo)
         IN IF change.n > 0
              THEN [sums EXCEPT !.gain = RAdd(@, change)]
              ELSE [sums EXCEPT !.loss = RAdd(@, RNeg(change))]
  ELSE LET mid == (lo + hi) \div 2
       IN GainLossLoop(closes, mid + 1, hi, GainLossLoop(closes, lo, mid, sums))

RECURSIVE SmoothLoop(_, _, _, _, _)
\* for (i = period + 1; i < closes.length; i++): avgGain and avgLoss, lo..hi
SmoothLoop(closes, period, lo, hi, avg) ==
  IF avg.gain.k # "num" \/ lo > hi THEN avg
  ELSE IF lo = hi
    THEN LET change == Change(closes, lo)
             gain == IF change.n > 0 THEN change ELSE Int2Num(0)
             loss == IF change.n < 0 THEN RNeg(change) ELSE Int2Num(0)
         IN [gain |-> RDiv(RAdd(RMul(avg.gain, Int2Num(period - 1)), gain),
                           Int2Num(period)),
             loss |-> RDiv(RAdd(RMul(avg.loss, Int2Num(period - 1)), loss),
                           Int2Num(period))]
  ELSE LET mid == (lo + hi) \div 2
       IN SmoothLoop(closes, period, mid + 1, hi,
                     SmoothLoop(closes, period, lo, mid, avg))

\* Mutant: the closes are read in the order given, newest first.
NewestFirst(prices) == prices

\* const closes = [...prices].reverse(): oldest -> latest
OldestFirst(prices) == Reverse(prices)

\* Mutant: a series of period + 1 closes is too short as well.
TooShortInclusive(prices, period) == Len(prices) <= period + 1

\* if (!Array.isArray(prices) || prices.length < period + 1) return null
TooShort(prices, period) == Len(prices) < period + 1

\* calculateRSI (Wilder), prices[1] the most recent close
calculateRSI(prices, period) ==
  IF TooShort(prices, period) THEN NULL
  ELSE LET closes == OldestFirst(prices)
           sums == GainLossLoop(closes, 1, period,
                                [gain |-> Int2Num(0), loss |-> Int2Num(0)])
           first == [gain |-> RDiv(sums.gain, Int2Num(period)),
                     loss |-> RDiv(sums.loss, Int2Num(period))]
           avg == SmoothLoop(closes, period, period + 1, Len(closes) - 1, first)
       IN IF avg.loss.n = 0 THEN Int2Num(100)
          ELSE LET rs == RDiv(avg.gain, avg.loss)
               IN RSub(Int2Num(100), RDiv(Int2Num(100), RAdd(Int2Num(1), rs)))

\* ------------------------------------------------------------- JSON and files

\* A file's content is a sequence of tokens: punctuation, object keys and
\* values.  A partly written file holds a proper prefix of them.
P(c) == [k |-> "p", s |-> c, n |-> 0, d |-> 1]
Key(name) == [k |-> "key", s |-> name, n |-> 0, d |-> 1]

\* The fields of a snapshot row, in the order rows.push({...}) lists them.
RowFields ==
  <<"symbol", "market", "price", "change", "volume", "rsi14", "ma20_d",
    "ma60_d", "ma120_d", "ma240_d", "ma120_m", "candle_count_m">>

\* Mutant: null is written as 0.
StringifyNullAsZero(v) == IF v.k \in {"num", "str"} THEN v ELSE Int2Num(0)

\* JSON.stringify of one value: a number or a string as it is, null as null,
\* NaN as null.
StringifyValue(v) == IF v.k \in {"num", "str"} THEN v ELSE NULL

RECURSIVE StringifyFields(_, _)
\* the first i fields of a row object; a field holding undefined is left out
StringifyFields(row, i) ==
  IF i = 0 THEN <<>>
  ELSE StringifyFields(row, i - 1) \o
       (IF row[RowFields[i]].k = "undef" THEN <<>>
        ELSE <<Key(RowFields[i]), StringifyValue(row[RowFields[i]])>>)

StringifyRow(row) ==
  <<P("{")>> \o StringifyFields(row, Len(RowFields)) \o <<P("}")>>

RECURSIVE StringifyRows(_, _)
StringifyRows(rs, i) ==
  IF i = 0 THEN <<>> ELSE StringifyRows(rs, i - 1) \o StringifyRow(rs[i])

\* JSON.stringify(snapshot)
JSONstringify(snap) ==
  <<P("{"), Key("updatedAt"), StringifyValue(snap.updatedAt),
    Key("count"), StringifyValue(snap.count), Key("rows"), P("[")>>
  \o StringifyRows(snap.rows, Len(snap.rows)) \o <<P("]"), P("}")>>

ParseFail == [ok |-> FALSE, val |-> <<>>, next |-> 0]

RECURSIVE ParseObject(_, _, _)
RECURSIVE ParseArray(_, _, _)
\* The members of an object from token i on, up to its closing brace.
ParseObject(toks, i, acc) ==
  IF i > Len(toks) THEN ParseFail
  ELSE IF toks[i] = P("}") THEN [ok |-> TRUE, val |-> acc, next |-> i + 1]
  ELSE IF toks[i].k # "key" \/ i + 1 > Len(toks) THEN ParseFail
  ELSE IF toks[i + 1] = P("[")
    THEN LET a == ParseArray(toks, i + 2, <<>>)
         IN IF a.ok THEN ParseObject(toks, a.next, acc @@ (toks[i].s :> a.val))
            ELSE ParseFail
  ELSE IF toks[i + 1].k \in {"num", "str", "null"}
    THEN ParseObject(toks, i + 2, acc @@ (toks[i].s :> toks[i + 1]))
  ELSE ParseFail

\* The objects of an array from token i on, up to its closing bracket.
ParseArray(toks, i, acc) ==
  IF i > Len(toks) THEN ParseFail
  ELSE IF toks[i] = P("]") THEN [ok |-> TRUE, val |-> acc, next |-> i + 1]
  ELSE IF toks[i] = P("{")
    THEN LET o == ParseObject(toks, i + 1, <<>>)
         IN IF o.ok THEN ParseArray(toks, o.next, Append(acc, o.val))
            ELSE ParseFail
  ELSE ParseFail

\* JSON.parse(raw): the whole text must be one object; anything else throws.
JSONparse(toks) ==
  IF Len(toks) = 0 \/ toks[1] # P("{") THEN ParseFail
  ELSE LET o == ParseObject(toks, 2, <<>>)
       IN IF o.ok /\ o.next = Len(toks) + 1 THEN o ELSE ParseFail

SNAPSHOT_PATH == "public/snapshot.json"
CSV_PATH == "public/screener_result.csv"
\* Mutant: the snapshot is written straight to the snapshot file.
TmpPathIsTarget == SNAPSHOT_PATH

\* const tmp = SNAPSHOT_PATH + ".tmp"
TmpPath == "public/snapshot.json.tmp"
Paths == {SNAPSHOT_PATH, TmpPath, CSV_PATH}

NoFile == [exists |-> FALSE, data |-> <<>>]
FileOf(toks) == [exists |-> TRUE, data |-> toks]

\* readSnapshot's null
NoSnapshot == [null |-> TRUE]

\* readSnapshot: null when the file is missing or JSON.parse throws
readSnapshot(d) ==
  IF ~d[SNAPSHOT_PATH].exists THEN NoSnapshot
  ELSE LET o == JSONparse(d[SNAPSHOT_PATH].data)
       IN IF o.ok THEN o.val ELSE NoSnapshot

\* fs.renameSync(from, to)
renameSync(d, from, to) ==
  IF from = to THEN d ELSE [d EXCEPT ![to] = d[from], ![from] = NoFile]

\* Mutant: the data is added at the end of what the file holds.
appendFileSync(d, path, data, stage) ==
  LET old == IF d[path].exists /\ stage = 1 THEN d[path].data ELSE <<>>
      kept == IF stage = 1 THEN old
              ELSE SubSeq(d[path].data, 1,
                          Len(d[path].data)
                            - (IF stage = 2 THEN 0 ELSE Len(data) \div 2))
  IN CASE stage = 1 -> [d EXCEPT ![path] = FileOf(kept)]
       [] stage = 2 ->
            [d EXCEPT ![path] = FileOf(kept \o SubSeq(data, 1, Len(data) \div 2))]
       [] OTHER -> [d EXCEPT ![path] = FileOf(kept \o data)]

\* fs.writeFileSync(path, data) as the disk sees it, stage by stage: the file
\* is created or truncated (1), holds the first half of the data (2), holds
\* all of it (3).
writeFileSync(d, path, data, stage) ==
  CASE stage = 1 -> [d EXCEPT ![path] = FileOf(<<>>)]
    [] stage = 2 -> [d EXCEPT ![path] = FileOf(SubSeq(data, 1, Len(data) \div 2))]
    [] OTHER -> [d EXCEPT ![path] = FileOf(data)]

\* ------------------------------------------------------------ snapshot rows

Min(a, b) == IF a < b THEN a ELSE b

\* dailyPrices: candleData.data reversed (newest first), c[2] through safeNum,
\* the nulls dropped.  A candle is modelled by its close c[2].
DailyPrices(data) ==
  LET reversedDaily == Reverse(data)
      nums == [i \in 1..Len(reversedDaily) |-> safeNum(reversedDaily[i])]
  IN SelectSeq(nums, LAMBDA n : n.k # "null")

\* Mutant: one sample per whole run of 30 closes.
MonthlyPricesWhole(dailyPrices) ==
  [i \in 1..(Len(dailyPrices) \div MonthlyStep) |->
     dailyPrices[(i - 1) * MonthlyStep + 1]]

\* monthlyPrices: dailyPrices[0], dailyPrices[30], dailyPrices[60], ...
MonthlyPrices(dailyPrices) ==
  [i \in 1..((Len(dailyPrices) + MonthlyStep - 1) \div MonthlyStep) |->
     dailyPrices[(i - 1) * MonthlyStep + 1]]

\* The row rows.push({...}) appends for `symbol`, from its quote t and its
\* daily closes.
MakeRow(symbol, t, dailyPrices) ==
  LET monthlyPrices == MonthlyPrices(dailyPrices)
  IN [symbol |-> Str(symbol),
      market |-> Str(symbol \o "/KRW"),
      price |-> dailyPrices[1],
      change |-> IF safeNum(t.fluctate_rate_24H).k # "null"
                   THEN RDiv(safeNum(t.fluctate_rate_24H), Int2Num(100))
                   ELSE NULL,
      volume |-> safeNum(t.acc_trade_value_24H),
      rsi14 |-> calculateRSI(dailyPrices, RsiPeriod),
      ma20_d |-> calculateMA(dailyPrices, 20),
      ma60_d |-> calculateMA(dailyPrices, 60),
      ma120_d |-> calculateMA(dailyPrices, 120),
      ma240_d |-> calculateMA(dailyPrices, 240),
      ma120_m |-> calculateMA(monthlyPrices, 120),
      candle_count_m |-> Int2Num(Len(monthlyPrices))]

\* const snapshot = { updatedAt: new Date().toISOString(), count: rows.length, rows }
\* The ISO string of clock reading t is the string value numbered t.
IsoString(t) == [k |-> "str", s |-> "iso", n |-> t, d |-> 1]
\* Mutant: the count is the length the rows had before the workers ran.
MakeSnapshotCountFirst(t, rs) ==
  [updatedAt |-> IsoString(t), count |-> Int2Num(0), rows |-> rs]
MakeSnapshot(t, rs) ==
  [updatedAt |-> IsoString(t), count |-> Int2Num(Len(rs)), rows |-> rs]

\* ------------------------------------------------------------------- filter

\* Mutant: the upper limit is exclusive.
NearBelowLimit(currentPrice, ma) ==
  /\ ma # NULL
  /\ RGt(currentPrice, ma)
  /\ RLt(currentPrice, RMul(ma, Num(105, 100)))

\* Conditions 1 and 2: ma !== null, and
\* currentPrice > ma && currentPrice <= ma * 1.05
Near(currentPrice, ma) ==
  /\ ma # NULL
  /\ RGt(currentPrice, ma)
  /\ RLe(currentPrice, RMul(ma, Num(105, 100)))

\* Mutant: without ma120 the row does not pass.
AlignedThroughMa120(ma20, ma60, ma120) ==
  /\ ma20 # NULL /\ ma60 # NULL /\ ma120 # NULL
  /\ RGt(ma20, ma60) /\ RGt(ma60, ma120)

\* Condition 3: ma20 > ma60, and ma60 > ma120 when ma120 is there.
Aligned(ma20, ma60, ma120) ==
  IF ma20 # NULL /\ ma60 # NULL
    THEN IF ma120 # NULL THEN RGt(ma20, ma60) /\ RGt(ma60, ma120)
         ELSE RGt(ma20, ma60)
    ELSE FALSE

\* currentPrice <= ma * 0.95
Below(currentPrice, ma) == RLe(currentPrice, RMul(ma, Num(95, 100)))

\* Mutant: the price is 5% below one of the four averages.
SelloffBelowAny(currentPrice, ma20, ma60, ma120, ma240) ==
  /\ ma20 # NULL /\ ma60 # NULL /\ ma120 # NULL /\ ma240 # NULL
  /\ \/ Below(currentPrice, ma20) \/ Below(currentPrice, ma60)
     \/ Below(currentPrice, ma120) \/ Below(currentPrice, ma240)

\* Condition 4, second check: all four daily averages exist and the price is
\* at least 5% below every one of them.
Selloff(currentPrice, ma20, ma60, ma120, ma240) ==
  /\ ma20 # NULL /\ ma60 # NULL /\ ma120 # NULL /\ ma240 # NULL
  /\ Below(currentPrice, ma20) /\ Below(currentPrice, ma60)
  /\ Below(currentPrice, ma120) /\ Below(currentPrice, ma240)

\* Condition 4, third check: the daily averages are in reverse alignment.
Reversed(ma20, ma60, ma120, ma240) ==
  /\ ma20 # NULL /\ ma60 # NULL /\ ma120 # NULL
  /\ IF ma240 # NULL
       THEN RLt(ma20, ma60) /\ RLt(ma60, ma120) /\ RLt(ma120, ma240)
       ELSE RLt(ma20, ma60) /\ RLt(ma60, ma120)

\* Mutant: a row does not pass unless a rule lets it.
passedFalse == FALSE

\* let passed = true: what passesCondition returns when no rule branch is
\* taken
passed == TRUE

\* passesCondition(row, conditionId): the branches compare conditionId with
\* ===, which no number but 1, 2, 3, 4 and no NaN satisfies
passesCondition(row, conditionId) ==
  LET currentPrice == row.price
      ma20 == row.ma20_d
      ma60 == row.ma60_d
      ma120 == row.ma120_d
      ma240 == row.ma240_d
      ma120Monthly == row.ma120_m
  IN CASE conditionId = Int2Num(1) -> Near(currentPrice, ma60)
       [] conditionId = Int2Num(2) -> Near(currentPrice, ma120)
       [] conditionId = Int2Num(3) -> Aligned(ma20, ma60, ma120)
       [] conditionId = Int2Num(4) ->
            /\ ~(ma120Monthly # NULL /\ RLe(currentPrice, ma120Monthly))
            /\ ~Selloff(currentPrice, ma20, ma60, ma120, ma240)
            /\ ~Reversed(ma20, ma60, ma120, ma240)
       [] OTHER -> passed

\* Mutant: a row is excluded when its count does not exceed the minimum.
MonthGateInclusive(row, q) ==
  q.monthlyMin # 0 /\ row.candle_count_m.n <= q.monthlyMin

\* if (monthlyMin && Number(row.candle_count_m) < monthlyMin) return false
MonthGate(row, q) == q.monthlyMin # 0 /\ row.candle_count_m.n < q.monthlyMin

\* Mutant: only the comparison, which null passes as 0.
RsiGateComparesNull(row, q) ==
  /\ q.rsi.k = "num"
  /\ RLt(IF row.rsi14 = NULL THEN Int2Num(0) ELSE row.rsi14, q.rsi)

\* if (Number.isFinite(rsiThreshold)) {
\*   if (row.rsi14 === null || row.rsi14 < rsiThreshold) return false }
RsiGate(row, q) ==
  q.rsi.k = "num" /\ (row.rsi14 = NULL \/ RLt(row.rsi14, q.rsi))

\* The callback of rows.filter in GET /api/crypto: the monthly gate, the RSI
\* gate, then the rule.  q.rsi is NaN when the query's rsi is no number.
KeepRow(row, q) ==
  /\ ~MonthGate(row, q)
  /\ ~RsiGate(row, q)
  /\ passesCondition(row, q.conditionId)

\* The object .map builds for a row that passed.
OutRow(row) ==
  [market |-> row.market, korean_name |-> row.symbol, english_name |-> row.symbol,
   price |-> row.price, change |-> row.change, volume |-> row.volume,
   rsi14 |-> row.rsi14, ma20_d |-> row.ma20_d, ma60_d |-> row.ma60_d,
   ma120_d |-> row.ma120_d, ma240_d |-> row.ma240_d, ma120_m |-> row.ma120_m,
   candle_count_m |-> row.candle_count_m]

\* const rows = Array.isArray(snapshot.rows) ? snapshot.rows : []
\* const filtered = rows.filter(...).map(...)
Filtered(snap, q) ==
  LET kept == SelectSeq(snap.rows, LAMBDA row : KeepRow(row, q))
  IN [i \in 1..Len(kept) |-> OutRow(kept[i])]

\* x.toFixed(digits): x * 10^digits rounded to the nearest integer, half up.
RECURSIVE Pow10(_)
Pow10(k) == IF k = 0 THEN 1 ELSE 10 * Pow10(k - 1)
toFixed(x, digits) ==
  LET scaled == RMul(x, Int2Num(Pow10(digits)))
      units == (2 * Abs(scaled.n) + scaled.d) \div (2 * scaled.d)
  IN [k |-> "fixed", s |-> "", n |-> IF scaled.n < 0 THEN -units ELSE units,
      d |-> digits]

\* r.x?.toFixed(digits) || "N/A"
Cell(v, digits) == IF v.k = "num" THEN toFixed(v, digits) ELSE Str("N/A")

csvHeader ==
  Str("Market,Price,RSI14,MA20(D),MA60(D),MA120(D),MA240(D),MA120(M),MonthlyCandles")

\* One line of csvRows.
CsvLine(r) ==
  <<r.market, r.price, Cell(r.rsi14, 2), Cell(r.ma20_d, 0), Cell(r.ma60_d, 0),
    Cell(r.ma120_d, 0), Cell(r.ma240_d, 0), Cell(r.ma120_m, 0), r.candle_count_m>>

RECURSIVE CsvRows(_, _)
\* filtered.map(...).join("\n") : the lines, a line break between two of them
CsvRows(out, i) ==
  IF i = 0 THEN <<>>
  ELSE IF i = 1 THEN CsvLine(out[1])
  ELSE CsvRows(out, i - 1) \o <<P("\n")>> \o CsvLine(out[i])

\* csvHeader + csvRows
CsvText(out) == <<csvHeader, P("\n")>> \o CsvRows(out, Len(out))

\* ------------------------------------------------------------- the upstream

\* One entry of the quote feed's data object.
Quote(key, price, rate, value) ==
  [key |-> key, closing_price |-> price, fluctate_rate_24H |-> rate,
   acc_trade_value_24H |-> value]

\* A response of the upstream: the fetch or its json() rejects ("reject"), or
\* a body with a status and data arrives ("json").
Rejected == [kind |-> "reject", status |-> "", data |-> <<>>]
Body(status, data) == [kind |-> "json", status |-> status, data |-> data]
\* no response yet
NoTick == [kind |-> "none", status |-> "", data |-> <<>>]

\* 61 daily closes, oldest first: flat at 100, then 99, 102, 103, 104.
Closes61 ==
  [i \in 1..61 |->
     Int2Num(IF i <= 57 THEN 100 ELSE IF i = 58 THEN 99 ELSE 43 + i)]
\* Three candles, the middle one without a numeric close.
Closes3 == <<Int2Num(10), NotANumber("-"), Int2Num(11)>>
\* A single candle.
Closes1 == <<Int2Num(7)>>

\* The quote feed of the small market: two eligible symbols, a stable coin,
\* a symbol below the price floor and the feed's "date" entry.
SmallQuotes ==
  <<Quote("BTC", Int2Num(104), Num(-5, 2), Int2Num(9000)),
    Quote("USDT", Int2Num(1), Int2Num(0), Int2Num(500)),
    Quote("ETH", Int2Num(11), NotANumber("n/a"), UNDEF),
    Quote("XEC", Num(1, 200), Int2Num(1), Int2Num(3)),
    Quote("date", UNDEF, UNDEF, UNDEF)>>

\* The quote feed of the pool market: one symbol more than there are workers.
PoolKeys ==
  <<"P01", "P02", "P03", "P04", "P05", "P06", "P07", "P08", "P09", "P10",
    "P11", "P12", "P13", "P14", "P15", "P16">>
PoolQuotes ==
  [i \in 1..Len(PoolKeys) |->
     Quote(PoolKeys[i], Int2Num(i), Int2Num(1), Int2Num(100 * i))]

Quotes(m) == IF m = "small" THEN SmallQuotes ELSE PoolQuotes

\* A quote feed without a symbol to queue: a stable coin and the "date" entry.
BareQuotes ==
  <<Quote("USDT", Int2Num(1), Int2Num(0), Int2Num(500)),
    Quote("date", UNDEF, UNDEF, UNDEF)>>

\* The candle series of the series market, each named by its shape and its
\* number of candles.  Read newest first, as the build reads them, "UP" is
\* n, n-1, ..., 1 and "DOWN" is 1, 2, ..., n; "FLAT" is 7 throughout; "MIX"
\* goes up and down; "GAP" is "UP" with its 11th candle holding no number.
SeriesKinds ==
  ({"UP"} \X {2, 14, 15, 19, 20, 30, 31, 59, 60, 100, 119, 120, 239, 240,
              3570, 3571})
    \cup ({"DOWN"} \X {15, 20, 100})
    \cup ({"FLAT"} \X {15, 60})
    \cup ({"MIX"} \X {15, 16, 17})
    \cup ({"GAP"} \X {15, 21})

SeriesKey(series) == series[1] \o ToString(series[2])

\* candleData.data of a series, oldest candle first.
SeriesData(series) ==
  [i \in 1..series[2] |->
     CASE series[1] = "UP" -> Int2Num(i)
       [] series[1] = "DOWN" -> Int2Num(series[2] + 1 - i)
       [] series[1] = "FLAT" -> Int2Num(7)
       [] series[1] = "MIX" ->
            Int2Num(IF i % 3 = 0 THEN 12 ELSE IF i % 3 = 1 THEN 10 ELSE 13)
       [] OTHER -> IF i = 11 THEN NotANumber("-") ELSE Int2Num(i)]

\* The entries every quote feed of the series market ends with: the stable
\* coins, the feed's "date", a symbol at the price floor without volume, and
\* symbols whose price is below the floor, negative, null, missing or no
\* number, with a large volume.
TailQuotes ==
  <<Quote("USDC", Int2Num(1), Int2Num(0), Int2Num(1000000)),
    Quote("USDT", Int2Num(1), Int2Num(0), Int2Num(1000000)),
    Quote("USD1", Int2Num(1), Int2Num(0), Int2Num(1000000)),
    Quote("USDE", Int2Num(1), Int2Num(0), Int2Num(1000000)),
    Quote("date", UNDEF, UNDEF, UNDEF),
    Quote("EDGE", Num(1, 100), Int2Num(0), Int2Num(0)),
    Quote("LOW", Num(9, 1000), Int2Num(0), Int2Num(1000000)),
    Quote("NEG", Int2Num(-5), Int2Num(0), Int2Num(1000000)),
    Quote("NULLP", NULL, Int2Num(0), Int2Num(1000000)),
    Quote("NOPRICE", UNDEF, Int2Num(0), Int2Num(1000000)),
    Quote("TEXT", NotANumber("abc"), Int2Num(0), Int2Num(1000000))>>

\* The quote feeds of a market: the series market lists one series at a time,
\* the small market may list no symbol to queue.
Feeds(m) ==
  CASE m = "series" ->
         {<<Quote(SeriesKey(series), Int2Num(series[2]), Int2Num(1), UNDEF)>>
            \o TailQuotes : series \in SeriesKinds}
    [] m = "small" -> {Quotes(m), BareQuotes}
    [] OTHER -> {Quotes(m)}

\* What the quote feed may answer: success, a failure status (with or
\* without data), or no answer at all.
TickerResponses(m) ==
  {Rejected, Body("5500", <<>>)}
    \cup {Body(status, feed) : status \in {"5500", "0000"}, feed \in Feeds(m)}

\* What the candlestick feed may answer for a symbol.  The drain market has
\* the symbols of the pool market and one answer for each.
CandleResponses(m, symbol) ==
  CASE m = "small" /\ symbol = "BTC" -> {Rejected, Body("0000", Closes61)}
    [] m = "small" -> {Body("5500", <<>>), Body("0000", Closes3)}
    [] m = "series" /\ symbol = "EDGE" -> {Body("5500", <<>>)}
    [] m = "series" ->
         {Rejected,
          Body("0000", SeriesData(CHOOSE series \in SeriesKinds :
                                    SeriesKey(series) = symbol))}
    [] m = "drain" /\ symbol = "P16" -> {Body("0000", Closes3)}
    [] m = "drain" /\ symbol = "P01" -> {Rejected}
    [] m = "drain" -> {Body("5500", <<>>)}
    [] symbol \in {"P01", "P16"} -> {Rejected, Body("0000", Closes3)}
    [] symbol = "P02" -> {Body("0000", Closes1), Body("5500", <<>>)}
    [] OTHER -> {Body("5500", <<>>)}

\* Number(v) of a query parameter: a numeric string is its number, the empty
\* string is 0, any other string is NaN.
Number(v) ==
  CASE v.k = "num" -> v
    [] v.k = "str" /\ v.s = "" -> Int2Num(0)
    [] OTHER -> NotANumber(v.s)

\* req.query.rsi !== undefined ? Number(req.query.rsi) : 50
rsiThreshold(rsi) == IF rsi = UNDEF THEN Int2Num(50) ELSE Number(rsi)

\* parseInt(String(v), 10) of a query parameter: a numeric string gives its
\* integer part, any other string NaN.
parseInt(v) ==
  CASE v.k = "num" /\ v.n >= 0 -> Int2Num(v.n \div v.d)
    [] v.k = "num" -> Int2Num(-((-v.n) \div v.d))
    [] OTHER -> NotANumber(v.s)

\* req.query.conditionId ? parseInt(String(req.query.conditionId), 10) : 1:
\* a missing or empty parameter is rule 1
conditionIdOf(id) == IF id = UNDEF \/ id = Str("") THEN Int2Num(1) ELSE parseInt(id)

\* The parameters of a filter request, as the handler parses them: the rule
\* from the query's conditionId and the RSI floor from the query's rsi (UNDEF
\* when the caller gives none), the month minimum as an integer.
Query(conditionId, rsi, monthlyMin) ==
  [conditionId |-> conditionIdOf(conditionId), rsi |-> rsiThreshold(rsi),
   monthlyMin |-> monthlyMin, rsiGiven |-> rsi # UNDEF]
\* no parameters given: conditionId 1, rsi 50, monthlyMin 0
DefaultQuery == Query(UNDEF, UNDEF, 0)
Queries == {DefaultQuery, Query(Int2Num(4), NotANumber("x"), 1)}

\* A snapshot row as JSON.parse may hand it to the filter: the file is read
\* without validation, so any combination of present and absent indicators
\* can stand in it.
GridRow(price, ma20, ma60, ma120, ma240, ma120m, rsi, months) ==
  [symbol |-> Str("BTC"), market |-> Str("BTC/KRW"), price |-> price,
   change |-> NULL, volume |-> Int2Num(1), rsi14 |-> rsi,
   ma20_d |-> ma20, ma60_d |-> ma60, ma120_d |-> ma120, ma240_d |-> ma240,
   ma120_m |-> ma120m, candle_count_m |-> months]

\* Rows over a grid of averages around 100, the RSI and the month count high
\* enough for every gate; the prices are 95% of 100, 100, 105% of 100 and 106.
AverageRows ==
  {GridRow(Int2Num(price), ma20, ma60, ma120, ma240, ma120m, Int2Num(60),
           Int2Num(3)) :
     price \in {95, 100, 105, 106},
     ma20 \in {NULL, Int2Num(90), Int2Num(100), Int2Num(110)},
     ma60 \in {NULL, Int2Num(90), Int2Num(100), Int2Num(110)},
     ma120 \in {NULL, Int2Num(90), Int2Num(100), Int2Num(110)},
     ma240 \in {NULL, Int2Num(100), Int2Num(120)},
     ma120m \in {NULL, Int2Num(100)}}

\* The rows of the documented scenarios.
ScenarioRows ==
  {GridRow(Int2Num(105), NULL, Int2Num(100), NULL, NULL, NULL, Int2Num(60),
           Int2Num(3)),
   GridRow(Int2Num(105), Int2Num(90), Int2Num(100), Int2Num(110), NULL, NULL,
           Int2Num(60), Int2Num(3)),
   GridRow(Int2Num(40), Int2Num(50), Int2Num(60), Int2Num(70), Int2Num(80), NULL,
           Int2Num(60), Int2Num(3))}

\* Rows that pass rules 1 and 4, or fail rule 1, over the RSI values and month
\* counts around the gates' thresholds.
GateRows ==
  {GridRow(Int2Num(price), NULL, Int2Num(100), NULL, NULL, NULL, rsi,
           Int2Num(months)) :
     price \in {105, 106},
     rsi \in {NULL, Int2Num(0), Num(4999, 100), Int2Num(50), Int2Num(60)},
     months \in {1, 2, 3}}

GridRows == AverageRows \cup ScenarioRows \cup GateRows

\* The conditionId parameters of the grid market: none, empty, 1 to 4, 2.7,
\* and what names no rule: 0, 5, -1 and a word.
GridIds ==
  {UNDEF, Str(""), Int2Num(1), Int2Num(2), Int2Num(3), Int2Num(4), Num(27, 10),
   Int2Num(0), Int2Num(5), Int2Num(-1), NotANumber("abc")}

\* The queries of the grid market: every conditionId; no rsi given, rsi=0 or
\* an rsi that is no number; the month gate off or at 2.
GridQueries ==
  {Query(id, rsi, monthlyMin) :
     id \in GridIds, rsi \in {UNDEF, Int2Num(0), NotANumber("off")},
     monthlyMin \in {0, 2}}

\* The queries the clients of market m send.
QueriesOf(m) == IF m = "grid" THEN GridQueries ELSE Queries

\* -------------------------------------------------------------------- state

VARIABLES
  market,     \* which upstream the server talks to
  file0,      \* the snapshot file the server found when it started
  disk,       \* the files under public/: path -> [exists, data]
  now,        \* the last clock reading
  io,         \* the writeFileSync in progress: [owner, stage], owner 0 when none
  kind,       \* per request: "none", "refresh" or "filter"
  params,     \* per filter request: its parsed query
  pc,         \* per request: where its handler stands
  tick,       \* per build: tickerData
  eligible,   \* per build: preFilteredSymbols
  queue,      \* per build: the work queue
  inflight,   \* per build: the bag of symbols whose candle fetch is awaited
  finished,   \* per build: how many of the workers have returned
  rows,       \* per build: the rows pushed so far
  fetched,    \* per build: the bag of symbols a candle fetch was issued for
  answers,    \* per build: the candle responses received, as <<symbol, response>>
  snapshot,   \* per request: the snapshot its handler holds
  filtered,   \* per filter request: the rows that passed
  resp,       \* per request: the response sent
  written,    \* the snapshots handed to writeSnapshot so far
  lastWriter, \* the request whose writeSnapshot renamed last, 0 when none
  nbuilds,    \* per request: calls of buildSnapshot (one quote fetch each)
  nwrites     \* per request: calls of writeSnapshot

vars ==
  <<market, file0, disk, now, io, kind, params, pc, tick, eligible, queue, inflight,
    finished, rows, fetched, answers, snapshot, filtered, resp, written,
    lastWriter, nbuilds, nwrites>>

\* what the server is given and never changes
env == <<market, file0>>

Reqs == 1..MaxReqs

NoResp == [status |-> 0, updatedAt |-> NULL, count |-> 0, data |-> <<>>]
\* res.status(500).json({ success: false, ... })
ErrorResp == [status |-> 500, updatedAt |-> NULL, count |-> 0, data |-> <<>>]
\* res.json({ success: true, ... })
OkResp(updatedAt, count, data) ==
  [status |-> 200, updatedAt |-> updatedAt, count |-> count, data |-> data]

Idle == [owner |-> 0, stage |-> 0]

\* The snapshot an earlier run of the server left: the market's first symbol.
PrevSnapshot(m) ==
  IF m = "small"
    THEN MakeSnapshot(0, <<MakeRow("BTC", SmallQuotes[1], DailyPrices(Closes61))>>)
    ELSE MakeSnapshot(0, <<MakeRow("P01", PoolQuotes[1], DailyPrices(Closes3))>>)

\* What the snapshot file can hold when the server starts: nothing, a complete
\* snapshot, or something JSON.parse rejects.
InitialFiles(m) ==
  {NoFile, FileOf(JSONstringify(PrevSnapshot(m))),
   FileOf(<<P("{"), Key("updatedAt")>>)}

InitOn(m, files) ==
  /\ market = m
  /\ file0 \in files
  /\ disk = [p \in Paths |-> IF p = SNAPSHOT_PATH THEN file0 ELSE NoFile]
  /\ now = 1
  /\ io = Idle
  /\ kind = [r \in Reqs |-> "none"]
  /\ params = [r \in Reqs |-> DefaultQuery]
  /\ pc = [r \in Reqs |-> "idle"]
  /\ tick = [r \in Reqs |-> NoTick]
  /\ eligible = [r \in Reqs |-> <<>>]
  /\ queue = [r \in Reqs |-> <<>>]
  /\ inflight = [r \in Reqs |-> EmptyBag]
  /\ finished = [r \in Reqs |-> 0]
  /\ rows = [r \in Reqs |-> <<>>]
  /\ fetched = [r \in Reqs |-> EmptyBag]
  /\ answers = [r \in Reqs |-> {}]
  /\ snapshot = [r \in Reqs |-> NoSnapshot]
  /\ filtered = [r \in Reqs |-> <<>>]
  /\ resp = [r \in Reqs |-> NoResp]
  /\ written = {}
  /\ lastWriter = 0
  /\ nbuilds = [r \in Reqs |-> 0]
  /\ nwrites = [r \in Reqs |-> 0]

Init == InitOn("small", InitialFiles("small"))

buildVars == <<tick, eligible, queue, inflight, finished, rows, fetched, answers>>

\* ------------------------------------------------------------- buildSnapshot

\* Mutant: the status of the quote feed is not looked at.
StatusIgnored(t) == TRUE

\* if (tickerData.status !== "0000") throw
StatusOk(t) == t.status = "0000"

\* Mutant: the pre-filter of an earlier version, by price and by volume.
PreFilteredByVolume(data) ==
  LET kept == SelectSeq(data,
                LAMBDA e : /\ e.key # "date"
                           /\ e.key \notin {"USDC", "USDT", "USD1", "USDE"}
                           /\ safeNum(e.closing_price) # NULL
                           /\ RGe(safeNum(e.closing_price), Num(1, 100))
                           /\ e.acc_trade_value_24H.k = "num"
                           /\ RGe(e.acc_trade_value_24H, Int2Num(50000000)))
  IN [i \in 1..Len(kept) |-> kept[i].key]

\* symbols: the keys but "date" and the stable coins; preFilteredSymbols:
\* those whose closing_price is a number >= 0.01
Excluded == {"USDC", "USDT", "USD1", "USDE"}
PreFiltered(data) ==
  LET symbols == SelectSeq(data, LAMBDA e : e.key # "date" /\ e.key \notin Excluded)
      kept == SelectSeq(symbols,
                LAMBDA e : LET price == safeNum(e.closing_price)
                           IN price # NULL /\ RGe(price, Num(1, 100)))
  IN [i \in 1..Len(kept) |-> kept[i].key]

\* tickerData.data[symbol] || {}
QuoteOf(data, symbol) ==
  IF \E i \in 1..Len(data) : data[i].key = symbol
    THEN data[CHOOSE i \in 1..Len(data) : data[i].key = symbol]
    ELSE Quote(symbol, UNDEF, UNDEF, UNDEF)

\* Mutant: the head is read and left in the queue.
peek(q) == [symbol |-> Head(q), rest |-> q]

\* queue.shift(): the head, and the queue without it
shift(q) == [symbol |-> Head(q), rest |-> Tail(q)]

\* Mutant: one worker per queued symbol.
OnePerSymbol(q) == Len(q)

\* Array(concurrency): the workers of a build
PoolSize(q) == Concurrency

\* One worker run up to its next await: while (queue.length > 0) it takes the
\* head and awaits its candle fetch; with the queue empty it returns.
\* st is [queue, inflight, finished, fetched].
WorkerTurn(st) ==
  IF Len(st.queue) > 0
    THEN LET sh == shift(st.queue)
         IN [st EXCEPT !.queue = sh.rest,
                       !.inflight = @ (+) SetToBag({sh.symbol}),
                       !.fetched = @ (+) SetToBag({sh.symbol})]
    ELSE [st EXCEPT !.finished = @ + 1]

RECURSIVE Launch(_, _)
\* .map(async () => {...}) over k workers, one after the other
Launch(st, k) == IF k = 0 THEN st ELSE WorkerTurn(Launch(st, k - 1))

\* Mutant: the build goes on as soon as one worker has returned.
AnySettled(r) == finished[r] >= 1

\* await Promise.all(workers) resumes once every worker has returned
AllSettled(r) == finished[r] = PoolSize(eligible[r])

\* Mutant: a single close is enough for a row.
DroppedUnlessOneClose(c) ==
  \/ c.kind = "reject"
  \/ c.status # "0000"
  \/ Len(DailyPrices(c.data)) < 1

\* Whether a candle response makes the worker give the symbol up: the fetch
\* threw, the status is not "0000", or fewer than 2 closes are numbers.
Dropped(c) ==
  \/ c.kind = "reject"
  \/ c.status # "0000"
  \/ Len(DailyPrices(c.data)) < MinCloses

\* Mutant: a worker whose symbol failed leaves its loop.
BreakOnError(st, c) ==
  IF Dropped(c) THEN [st EXCEPT !.finished = @ + 1] ELSE WorkerTurn(st)

\* The end of one round of the loop: the row is pushed, or `continue`, or the
\* catch block has swallowed the error; the worker goes round again.
AfterSymbol(st, c) == WorkerTurn(st)

\* Mutant: the handler's catch answers with an empty result.
AnswerEmpty(r) ==
  /\ resp' = [resp EXCEPT ![r] = OkResp(NULL, 0, <<>>)]
  /\ pc' = [pc EXCEPT ![r] = "done"]

\* the handler's catch: res.status(500)
Fail(r) ==
  /\ resp' = [resp EXCEPT ![r] = ErrorResp]
  /\ pc' = [pc EXCEPT ![r] = "done"]

\* buildSnapshot is called: its quote fetch is awaited
StartBuild(r) ==
  /\ pc' = [pc EXCEPT ![r] = "ticker"]
  /\ nbuilds' = [nbuilds EXCEPT ![r] = @ + 1]

\* GET /api/crypto/refresh arrives.
Refresh(r) ==
  /\ io.owner = 0 /\ pc[r] = "idle"
  /\ kind' = [kind EXCEPT ![r] = "refresh"]
  /\ StartBuild(r)
  /\ UNCHANGED <<env, disk, now, io, params, buildVars, snapshot, filtered,
                 resp, written, lastWriter, nwrites>>

\* The quote fetch rejects, or its status is not "0000": buildSnapshot throws
\* and the handler answers 500.
TickerFail(r) ==
  /\ io.owner = 0 /\ pc[r] = "ticker"
  /\ \E t \in TickerResponses(market) :
       /\ t.kind = "reject" \/ ~StatusOk(t)
       /\ tick' = [tick EXCEPT ![r] = [t EXCEPT !.data = <<>>]]
  /\ Fail(r)
  /\ UNCHANGED <<env, disk, now, io, kind, params, eligible, queue,
                 inflight, finished, rows, fetched, answers, snapshot, filtered,
                 written, lastWriter, nbuilds, nwrites>>

\* The quote feed answers: the symbols are filtered and queued and the
\* workers start, each running up to its first await.
TickerOk(r) ==
  /\ io.owner = 0 /\ pc[r] = "ticker"
  /\ \E t \in TickerResponses(market) :
       /\ t.kind = "json" /\ StatusOk(t)
       /\ LET q == PreFiltered(t.data)
              st == Launch([queue |-> q, inflight |-> EmptyBag, finished |-> 0,
                            fetched |-> EmptyBag], PoolSize(q))
          IN /\ tick' = [tick EXCEPT ![r] = t]
             /\ eligible' = [eligible EXCEPT ![r] = q]
             /\ queue' = [queue EXCEPT ![r] = st.queue]
             /\ inflight' = [inflight EXCEPT ![r] = st.inflight]
             /\ finished' = [finished EXCEPT ![r] = st.finished]
             /\ fetched' = [fetched EXCEPT ![r] = st.fetched]
  /\ rows' = [rows EXCEPT ![r] = <<>>]
  /\ answers' = [answers EXCEPT ![r] = {}]
  /\ pc' = [pc EXCEPT ![r] = "workers"]
  /\ UNCHANGED <<env, disk, now, io, kind, params, snapshot, filtered, resp,
                 written, lastWriter, nbuilds, nwrites>>

\* The candle fetch of one worker settles: the worker pushes the symbol's row
\* or drops the symbol, and goes round its loop.
CandleDone(r) ==
  /\ io.owner = 0 /\ pc[r] = "workers"
  /\ \E symbol \in BagToSet(inflight[r]) :
       \E c \in CandleResponses(market, symbol) :
         LET st == AfterSymbol([queue |-> queue[r],
                                inflight |-> inflight[r] (-) SetToBag({symbol}),
                                finished |-> finished[r],
                                fetched |-> fetched[r]], c)
         IN /\ rows' = [rows EXCEPT ![r] =
                 IF Dropped(c) THEN @
                 ELSE Append(@, MakeRow(symbol, QuoteOf(tick[r].data, symbol),
                                        DailyPrices(c.data)))]
            /\ queue' = [queue EXCEPT ![r] = st.queue]
            /\ inflight' = [inflight EXCEPT ![r] = st.inflight]
            /\ finished' = [finished EXCEPT ![r] = st.finished]
            /\ fetched' = [fetched EXCEPT ![r] = st.fetched]
            /\ answers' = [answers EXCEPT ![r] = @ \cup {<<symbol, c>>}]
  /\ UNCHANGED <<env, disk, now, io, kind, params, pc, tick, eligible,
                 snapshot, filtered, resp, written, lastWriter, nbuilds, nwrites>>

\* Mutant: the timestamp is a clock reading taken before the workers ran.
ClockBeforeWorkers == 1..Min(now + 1, MaxTime)

\* new Date(): the clock reads what it read last, or later
Clock == now..Min(now + 1, MaxTime)

\* Promise.all resolves: the snapshot is made from the clock and the rows, and
\* writeSnapshot begins: writeFileSync creates the temporary file.
Join(r) ==
  /\ io.owner = 0 /\ pc[r] = "workers"
  /\ AllSettled(r)
  /\ \E t \in Clock :
       LET snap == MakeSnapshot(t, rows[r])
       IN /\ now' = t
          /\ snapshot' = [snapshot EXCEPT ![r] = snap]
          /\ written' = written \cup {snap}
          /\ disk' = writeFileSync(disk, TmpPath, JSONstringify(snap), 1)
  /\ nwrites' = [nwrites EXCEPT ![r] = @ + 1]
  /\ io' = [owner |-> r, stage |-> 1]
  /\ pc' = [pc EXCEPT ![r] = "w_tmp"]
  /\ UNCHANGED <<env, kind, params, buildVars, filtered, resp, lastWriter,
                 nbuilds>>

\* writeFileSync(tmp, JSON.stringify(snapshot)) goes on.
WriteTmp(r) ==
  /\ io.owner = r /\ pc[r] = "w_tmp" /\ io.stage < 3
  /\ disk' = writeFileSync(disk, TmpPath, JSONstringify(snapshot[r]), io.stage + 1)
  /\ io' = [io EXCEPT !.stage = @ + 1]
  /\ UNCHANGED <<env, now, kind, params, pc, buildVars, snapshot, filtered,
                 resp, written, lastWriter, nbuilds, nwrites>>

\* fs.renameSync(tmp, SNAPSHOT_PATH); buildSnapshot returns the snapshot.
Rename(r) ==
  /\ io.owner = r /\ pc[r] = "w_tmp" /\ io.stage = 3
  /\ disk' = renameSync(disk, TmpPath, SNAPSHOT_PATH)
  /\ lastWriter' = r
  /\ io' = Idle
  /\ pc' = [pc EXCEPT ![r] = "built"]
  /\ UNCHANGED <<env, now, kind, params, buildVars, snapshot, filtered, resp,
                 written, nbuilds, nwrites>>

\* The refresh handler resumes after await buildSnapshot() and answers.
RefreshDone(r) ==
  /\ io.owner = 0 /\ pc[r] = "built" /\ kind[r] = "refresh"
  /\ resp' = [resp EXCEPT ![r] =
       OkResp(snapshot[r].updatedAt, snapshot[r].count, <<>>)]
  /\ pc' = [pc EXCEPT ![r] = "done"]
  /\ UNCHANGED <<env, disk, now, io, kind, params, buildVars, snapshot,
                 filtered, written, lastWriter, nbuilds, nwrites>>

\* --------------------------------------------------------- GET /api/crypto

\* Mutant: the snapshot read is never used.
NeverHit(snap) == FALSE

\* Mutant: a snapshot without rows counts as no snapshot.
CacheHitWithRows(snap) == snap # NoSnapshot /\ Len(snap.rows) > 0

\* if (!snapshot) snapshot = await buildSnapshot()
CacheHit(snap) == snap # NoSnapshot

\* The rows of `snap` are filtered and the write of the CSV file begins.
Evaluate(r, snap, q) ==
  LET out == Filtered(snap, q)
  IN /\ snapshot' = [snapshot EXCEPT ![r] = snap]
     /\ filtered' = [filtered EXCEPT ![r] = out]
     /\ disk' = writeFileSync(disk, CSV_PATH, CsvText(out), 1)
     /\ io' = [owner |-> r, stage |-> 1]
     /\ pc' = [pc EXCEPT ![r] = "w_csv"]

\* GET /api/crypto arrives and readSnapshot finds a snapshot.
FilterHit(r) ==
  /\ io.owner = 0 /\ pc[r] = "idle"
  /\ CacheHit(readSnapshot(disk))
  /\ \E q \in QueriesOf(market) :
       /\ params' = [params EXCEPT ![r] = q]
       /\ Evaluate(r, readSnapshot(disk), q)
  /\ kind' = [kind EXCEPT ![r] = "filter"]
  /\ UNCHANGED <<env, now, buildVars, resp, written, lastWriter, nbuilds,
                 nwrites>>

\* GET /api/crypto arrives and readSnapshot returns null: a build starts.
FilterMiss(r) ==
  /\ io.owner = 0 /\ pc[r] = "idle"
  /\ ~CacheHit(readSnapshot(disk))
  /\ \E q \in QueriesOf(market) : params' = [params EXCEPT ![r] = q]
  /\ kind' = [kind EXCEPT ![r] = "filter"]
  /\ StartBuild(r)
  /\ UNCHANGED <<env, disk, now, io, buildVars, snapshot, filtered, resp,
                 written, lastWriter, nwrites>>

\* Mutant: after the build the handler reads the snapshot file again.
Reread(r) == readSnapshot(disk)

\* snapshot = await buildSnapshot(): the snapshot the build returned
Awaited(r) == snapshot[r]

\* The filter handler resumes after await buildSnapshot().
FilterBuilt(r) ==
  /\ io.owner = 0 /\ pc[r] = "built" /\ kind[r] = "filter"
  /\ Evaluate(r, Awaited(r), params[r])
  /\ UNCHANGED <<env, now, kind, params, buildVars, resp, written,
                 lastWriter, nbuilds, nwrites>>

\* fs.writeFileSync(CSV_PATH, csvHeader + csvRows) goes on.
WriteCsv(r) ==
  /\ io.owner = r /\ pc[r] = "w_csv" /\ io.stage < 3
  /\ disk' = writeFileSync(disk, CSV_PATH, CsvText(filtered[r]), io.stage + 1)
  /\ io' = [io EXCEPT !.stage = @ + 1]
  /\ UNCHANGED <<env, now, kind, params, pc, buildVars, snapshot, filtered,
                 resp, written, lastWriter, nbuilds, nwrites>>

\* The CSV file is written; the filter handler answers.
FilterDone(r) ==
  /\ io.owner = r /\ pc[r] = "w_csv" /\ io.stage = 3
  /\ resp' = [resp EXCEPT ![r] =
       OkResp(snapshot[r].updatedAt, Len(filtered[r]), filtered[r])]
  /\ io' = Idle
  /\ pc' = [pc EXCEPT ![r] = "done"]
  /\ UNCHANGED <<env, disk, now, kind, params, buildVars, snapshot, filtered,
                 written, lastWriter, nbuilds, nwrites>>

Step(r) ==
  \/ Refresh(r)
  \/ FilterHit(r)
  \/ FilterMiss(r)
  \/ TickerFail(r)
  \/ TickerOk(r)
  \/ CandleDone(r)
  \/ Join(r)
  \/ WriteTmp(r)
  \/ Rename(r)
  \/ RefreshDone(r)
  \/ FilterBuilt(r)
  \/ WriteCsv(r)
  \/ FilterDone(r)

Next == \E r \in Reqs : Step(r)

Spec == Init /\ [][Next]_vars

\* One refresh against the pool market: more symbols than workers.
InitPool == InitOn("pool", {NoFile})
NextPool ==
  \/ Refresh(1)
  \/ TickerFail(1)
  \/ TickerOk(1)
  \/ CandleDone(1)
  \/ Join(1)
  \/ WriteTmp(1)
  \/ Rename(1)
  \/ RefreshDone(1)
SpecPool == InitPool /\ [][NextPool]_vars

\* Request r goes on from where it stands: a network call it awaits settles
\* (the quote fetch, a candle fetch), or the code after an await or inside a
\* synchronous call runs.
Resume(r) ==
  \/ TickerFail(r)
  \/ TickerOk(r)
  \/ CandleDone(r)
  \/ Join(r)
  \/ WriteTmp(r)
  \/ Rename(r)
  \/ RefreshDone(r)
  \/ FilterBuilt(r)
  \/ WriteCsv(r)
  \/ FilterDone(r)

\* One refresh against the drain market: more symbols than workers.  Every
\* network call settles and the event loop runs what is ready; nothing makes
\* the request arrive.
InitDrain == InitOn("drain", {NoFile})
SpecDrain == InitDrain /\ [][NextPool]_vars /\ WF_vars(Resume(1))

\* One refresh against the series market.
InitSeries == InitOn("series", {NoFile})
SpecSeries == InitSeries /\ [][NextPool]_vars

\* The snapshot files of the grid market: one row each.
GridFiles == {FileOf(JSONstringify(MakeSnapshot(0, <<row>>))) : row \in GridRows}

\* One filter request against a snapshot file of the grid market.
InitGrid == InitOn("grid", GridFiles)
NextGrid ==
  \/ FilterHit(1)
  \/ WriteCsv(1)
  \/ FilterDone(1)
SpecGrid == InitGrid /\ [][NextGrid]_vars

\* ------------------------------------------------------------------ claims

\* The text of the snapshot file is complete: a snapshot parses from it.
Readable(d) == readSnapshot(d) # NoSnapshot
\* A filter request that found a snapshot and built none.
ServedFromFile(r) == kind[r] = "filter" /\ nbuilds[r] = 0
\* A filter request that found none and called buildSnapshot.
Missed(r) == kind[r] = "filter" /\ nbuilds[r] > 0
\* The symbols of a sequence of rows.
SymbolsOf(rs) == {rs[i].symbol.s : i \in 1..Len(rs)}
ToSet(q) == {q[i] : i \in 1..Len(q)}

\* C1: in every state the snapshot file is the file the server started with
\* or the complete text of a snapshot handed to writeSnapshot, never a part
\* of one; and what readSnapshot gave a filter request is such a snapshot.
C1_SnapshotFileComplete ==
  /\ \/ disk[SNAPSHOT_PATH] = file0
     \/ \E s \in written : disk[SNAPSHOT_PATH] = FileOf(JSONstringify(s))
  /\ \A r \in Reqs :
       ServedFromFile(r) =>
         \/ snapshot[r] \in written
         \/ FileOf(JSONstringify(snapshot[r])) = file0

\* A second snapshot is half written to the temporary file while the snapshot
\* file holds the complete snapshot of an earlier build.
C1_Witness ==
  /\ io.owner # 0 /\ io.stage = 2
  /\ pc[io.owner] = "w_tmp"
  /\ lastWriter # 0
  /\ snapshot[lastWriter] # snapshot[io.owner]
  /\ disk[SNAPSHOT_PATH] = FileOf(JSONstringify(snapshot[lastWriter]))
  /\ ~Readable([disk EXCEPT ![SNAPSHOT_PATH] = disk[TmpPath]])

\* C2: a build whose quote feed answered with a status other than "0000" has
\* failed with an error response, has issued no candle fetch and has never
\* called writeSnapshot, and the step in which it fails changes no file.
C2_FailedQuoteLeavesDisk ==
  [][\A r \in Reqs :
       (tick'[r].kind = "json" /\ tick'[r].status # "0000") =>
         /\ pc'[r] = "done"
         /\ resp'[r] = ErrorResp
         /\ fetched'[r] = EmptyBag
         /\ nwrites'[r] = 0
         /\ pc[r] = "ticker" => disk' = disk]_vars

\* A build has failed on the status of the quote feed while the snapshot file
\* holds a complete snapshot.
C2_Witness ==
  \E r \in Reqs :
    /\ tick[r].kind = "json" /\ tick[r].status # "0000"
    /\ pc[r] = "done"
    /\ Readable(disk)

\* C3: when a candle fetch settles without a row, the build goes on: no
\* error response is sent, the worker takes the head of the queue if there
\* is one (and returns otherwise), no worker is lost; and a build that has
\* written its snapshot has fetched every queued symbol.
C3_SymbolFailureIsolated ==
  [][\A r \in Reqs :
       /\ (pc[r] = "workers" /\ inflight'[r] # inflight[r] /\ rows'[r] = rows[r]) =>
            /\ pc'[r] = "workers" /\ resp'[r] = NoResp
            /\ IF queue[r] # <<>>
                 THEN /\ queue'[r] = Tail(queue[r])
                      /\ CopiesIn(Head(queue[r]), inflight'[r]) = 1
                      /\ finished'[r] = finished[r]
                 ELSE finished'[r] = finished[r] + 1
       /\ pc'[r] = "workers" =>
            BagCardinality(inflight'[r]) + finished'[r] = Concurrency
       /\ pc'[r] \in {"built", "done"} /\ tick'[r].status = "0000" =>
            /\ \A s \in ToSet(eligible'[r]) : CopiesIn(s, fetched'[r]) = 1
            /\ nwrites'[r] = 1]_vars

\* The refresh has answered with a snapshot whose only row is that of the
\* sixteenth symbol: the worker that took it had failed on its first symbol.
C3_Witness ==
  /\ pc[1] = "done" /\ resp[1].status = 200
  /\ SymbolsOf(rows[1]) = {"P16"}
  /\ resp[1].count = Int2Num(1)

\* C4: once a build has handed its snapshot to writeSnapshot, its queue is
\* empty, all 15 workers have returned, no candle fetch is in flight, and the
\* snapshot holds exactly the rows the build has pushed.
C4_WriteAfterJoin ==
  \A r \in Reqs :
    nwrites[r] > 0 =>
      /\ queue[r] = <<>>
      /\ finished[r] = Concurrency
      /\ inflight[r] = EmptyBag
      /\ snapshot[r].rows = rows[r]
      /\ snapshot[r].count = Int2Num(Len(rows[r]))
      /\ snapshot[r] \in written

\* A build over 16 symbols has written a snapshot of two rows.
C4_Witness ==
  /\ pc[1] = "done" /\ nwrites[1] = 1
  /\ Len(eligible[1]) = Concurrency + 1
  /\ Len(rows[1]) = 2

\* C5: no symbol is fetched twice or while still queued, a symbol is in
\* flight at most once, the symbols queued and fetched are the eligible
\* ones; a build that has joined has fetched each eligible symbol once; each
\* row is that of a fetched symbol no longer in flight, and no two rows have
\* the same symbol.
C5_EachSymbolOnce ==
  \A r \in Reqs :
    /\ \A s \in BagToSet(fetched[r]) :
         /\ CopiesIn(s, fetched[r]) = 1
         /\ s \in ToSet(eligible[r]) /\ s \notin ToSet(queue[r])
    /\ \A s \in BagToSet(inflight[r]) :
         CopiesIn(s, inflight[r]) = 1 /\ CopiesIn(s, fetched[r]) = 1
    /\ ToSet(eligible[r]) = ToSet(queue[r]) \cup BagToSet(fetched[r])
    /\ nwrites[r] > 0 => BagToSet(fetched[r]) = ToSet(eligible[r])
    /\ \A i, j \in 1..Len(rows[r]) :
         /\ rows[r][i].symbol.s \in BagToSet(fetched[r]) \ BagToSet(inflight[r])
         /\ rows[r][i].symbol = rows[r][j].symbol => i = j

\* The sixteenth symbol is in flight, the first has its row already.
C5_Witness ==
  /\ pc[1] = "workers" /\ queue[1] = <<>>
  /\ CopiesIn("P16", inflight[1]) = 1
  /\ SymbolsOf(rows[1]) = {"P01"}
  /\ BagCardinality(fetched[1]) = Concurrency + 1

\* C6: at most 15 candle fetches of a build are in flight, and at most as
\* many as there are eligible symbols.
C6_AtMost15InFlight ==
  \A r \in Reqs :
    /\ BagCardinality(inflight[r]) <= 15
    /\ BagCardinality(inflight[r]) <= Len(eligible[r])

\* 15 fetches in flight, the sixteenth symbol waiting in the queue.
C6_Witness ==
  /\ BagCardinality(inflight[1]) = 15
  /\ queue[1] = <<"P16">>

\* C7: a filter request that arrives while the snapshot file is readable
\* starts no build and changes neither the snapshot file nor the temporary
\* file, then or later; it issues no fetch and never calls writeSnapshot, and
\* every row it keeps is a row of the snapshot it read.
C7_CacheHitTouchesNothing ==
  [][\A r \in Reqs :
       /\ (pc[r] = "idle" /\ kind'[r] = "filter" /\ Readable(disk)) =>
            /\ nbuilds'[r] = 0
            /\ snapshot'[r] = readSnapshot(disk)
       /\ (ServedFromFile(r)' /\ (pc[r] # pc'[r] \/ io.owner = r)) =>
            /\ disk'[SNAPSHOT_PATH] = disk[SNAPSHOT_PATH]
            /\ disk'[TmpPath] = disk[TmpPath]
            /\ pc'[r] \in {"w_csv", "done"}
            /\ tick'[r] = NoTick /\ fetched'[r] = EmptyBag /\ nwrites'[r] = 0
            /\ \A i \in 1..Len(filtered'[r]) :
                 \E j \in 1..Len(snapshot'[r].rows) :
                   filtered'[r][i] = OutRow(snapshot'[r].rows[j])]_vars

\* A filter request has answered from the snapshot file, one row kept,
\* after another request's build had replaced the file.
C7_Witness ==
  \E r \in Reqs :
    /\ ServedFromFile(r) /\ pc[r] = "done"
    /\ resp[r].status = 200 /\ Len(resp[r].data) = 1
    /\ snapshot[r] \in written

\* C8 as stated: every filter request that got null from readSnapshot ends
\* with a success response.
C8_MissAlwaysSucceeds ==
  \A r \in Reqs : Missed(r) /\ pc[r] = "done" => resp[r].status = 200

\* C8, amended: readSnapshot gives null exactly when the file is missing or
\* does not parse, and the request then runs one build instead of failing;
\* if the quote feed of that build answers with status "0000", the request
\* ends with a success response whose rows are the rows of the build's own
\* snapshot that pass the filter; otherwise it ends with the error response.
C8_MissRebuildsOnce ==
  [][\A r \in Reqs :
       /\ (pc[r] = "idle" /\ kind'[r] = "filter") =>
            /\ Missed(r)' <=> (~disk[SNAPSHOT_PATH].exists
                               \/ ~JSONparse(disk[SNAPSHOT_PATH].data).ok)
            /\ Missed(r)' => pc'[r] = "ticker" /\ resp'[r] = NoResp
       /\ Missed(r)' =>
            /\ nbuilds'[r] = 1
            /\ pc'[r] = "done" =>
                 IF tick'[r].status = "0000"
                   THEN /\ resp'[r].status = 200
                        /\ nwrites'[r] = 1
                        /\ MakeSnapshot(resp'[r].updatedAt.n, rows'[r]) \in written'
                        /\ resp'[r].data =
                             Filtered(MakeSnapshot(0, rows'[r]), params'[r])
                   ELSE resp'[r] = ErrorResp]_vars

\* A filter request found an unparsable file, built a snapshot of two rows
\* and answered with the one that passes; another build has replaced the
\* snapshot file in between.
C8_Witness ==
  \E r \in Reqs :
    /\ file0.exists /\ ~JSONparse(file0.data).ok
    /\ Missed(r) /\ pc[r] = "done" /\ resp[r].status = 200
    /\ Len(rows[r]) = 2 /\ Len(resp[r].data) = 1
    /\ lastWriter # r

\* C9: as long as no other writeSnapshot has renamed since, readSnapshot
\* returns the snapshot the last writeSnapshot was given: the same updatedAt,
\* count and rows, field by field, null staying null.
C9_WriteReadRoundTrip ==
  lastWriter # 0 =>
    LET S == MakeSnapshot(snapshot[lastWriter].updatedAt.n, rows[lastWriter])
        R == readSnapshot(disk)
    IN /\ S \in written
       /\ R # NoSnapshot
       /\ R.updatedAt = S.updatedAt /\ R.count = S.count
       /\ Len(R.rows) = Len(S.rows)
       /\ \A i \in 1..Len(S.rows) :
            \A f \in ToSet(RowFields) : R.rows[i][f] = S.rows[i][f]

\* The snapshot read back has two rows, one with every indicator but ma20
\* and ma60 absent, one with all of them absent.
C9_Witness ==
  /\ lastWriter # 0 /\ io.owner = 0
  /\ Len(readSnapshot(disk).rows) = 2
  /\ \E i, j \in 1..2 :
       /\ readSnapshot(disk).rows[i].ma60_d.k = "num"
       /\ readSnapshot(disk).rows[i].ma120_d = NULL
       /\ readSnapshot(disk).rows[j].rsi14 = NULL

\* The filter request r has answered with its gates off: no month minimum
\* and an RSI floor that is no number.
AnsweredUngated(r) ==
  /\ kind[r] = "filter" /\ pc[r] = "done" /\ resp[r].status = 200
  /\ params[r].monthlyMin = 0 /\ params[r].rsi.k # "num"
\* The response of request r holds the row.
InResponse(r, row) == OutRow(row) \in ToSet(resp[r].data)
\* The row of scenarios B and C: price 105, ma60 100, ma120 absent.
IsScenarioB(row) ==
  row.price = Int2Num(105) /\ row.ma60_d = Int2Num(100) /\ row.ma120_d = NULL

\* C11: under rule 1 (M = ma60) and rule 2 (M = ma120) a row is kept if and
\* only if M is present, price > M and 100 * price <= 105 * M; the row with
\* price 105, ma60 100 and no ma120 is kept under rule 1 and not under rule 2.
C11_NearAverageRule ==
  \A r \in Reqs :
    AnsweredUngated(r) /\ params[r].conditionId \in {Int2Num(1), Int2Num(2)} =>
      \A i \in 1..Len(snapshot[r].rows) :
        LET row == snapshot[r].rows[i]
            M == IF params[r].conditionId = Int2Num(1) THEN row.ma60_d ELSE row.ma120_d
        IN /\ InResponse(r, row) <=>
                /\ M.k = "num"
                /\ row.price.n * M.d > M.n * row.price.d
                /\ 100 * row.price.n * M.d <= 105 * M.n * row.price.d
           /\ IsScenarioB(row) =>
                (InResponse(r, row) <=> params[r].conditionId = Int2Num(1))

\* The scenario row has been filtered under rule 1 and kept: its price is
\* exactly at the upper limit.
C11_Witness ==
  \E r \in Reqs :
    /\ AnsweredUngated(r) /\ params[r].conditionId = Int2Num(1)
    /\ Len(snapshot[r].rows) = 1 /\ IsScenarioB(snapshot[r].rows[1])
    /\ Len(resp[r].data) = 1

\* C12: under rule 3 a row is kept if and only if ma20 and ma60 are present,
\* ma20 > ma60, and ma120 is absent or ma60 > ma120, whatever its price and
\* ma240 are; the row with ma20 90, ma60 100 and ma120 110 is not kept.
C12_AlignmentRule ==
  \A r \in Reqs :
    AnsweredUngated(r) /\ params[r].conditionId = Int2Num(3) =>
      \A i \in 1..Len(snapshot[r].rows) :
        LET row == snapshot[r].rows[i]
            a == row.ma20_d
            b == row.ma60_d
            c == row.ma120_d
        IN /\ InResponse(r, row) <=>
                /\ a.k = "num" /\ b.k = "num"
                /\ a.n * b.d > b.n * a.d
                /\ c.k = "num" => b.n * c.d > c.n * b.d
           /\ a = Int2Num(90) /\ b = Int2Num(100) /\ c = Int2Num(110) =>
                ~InResponse(r, row)

\* A row without ma120, ma20 above ma60, its price below both and its ma240
\* above both, has been filtered under rule 3 and kept.
C12_Witness ==
  \E r \in Reqs :
    /\ AnsweredUngated(r) /\ params[r].conditionId = Int2Num(3)
    /\ Len(snapshot[r].rows) = 1 /\ Len(resp[r].data) = 1
    /\ snapshot[r].rows[1].ma120_d = NULL
    /\ snapshot[r].rows[1].price = Int2Num(95)
    /\ snapshot[r].rows[1].ma240_d = Int2Num(120)

\* C13: under rule 4 a row is dropped if and only if (a) ma120_m is present
\* and price <= ma120_m, or (b) ma20, ma60, ma120 and ma240 are all present
\* and 100 * price <= 95 * each of them, or (c) ma20, ma60 and ma120 are
\* present with ma20 < ma60 < ma120, and ma120 < ma240 when ma240 is present;
\* a row without any average is kept, and the row with ma20 50, ma60 60,
\* ma120 70, ma240 80 and price 40 satisfies (b) and is dropped.
C13_ExcludeWeakRule ==
  \A r \in Reqs :
    AnsweredUngated(r) /\ params[r].conditionId = Int2Num(4) =>
      \A i \in 1..Len(snapshot[r].rows) :
        LET row == snapshot[r].rows[i]
            p == row.price
            a == row.ma20_d
            b == row.ma60_d
            c == row.ma120_d
            d == row.ma240_d
            m == row.ma120_m
            has(x) == x.k = "num"
            lt(x, y) == x.n * y.d < y.n * x.d
            le(x, y) == x.n * y.d <= y.n * x.d
            deep(x) == 100 * p.n * x.d <= 95 * x.n * p.d
            subA == has(m) /\ le(p, m)
            subB == /\ has(a) /\ has(b) /\ has(c) /\ has(d)
                    /\ deep(a) /\ deep(b) /\ deep(c) /\ deep(d)
            subC == /\ has(a) /\ has(b) /\ has(c)
                    /\ lt(a, b) /\ lt(b, c)
                    /\ has(d) => lt(c, d)
        IN /\ ~InResponse(r, row) <=> (subA \/ subB \/ subC)
           /\ ~has(a) /\ ~has(b) /\ ~has(c) /\ ~has(d) /\ ~has(m) =>
                InResponse(r, row)
           /\ (/\ p = Int2Num(40) /\ a = Int2Num(50) /\ b = Int2Num(60)
               /\ c = Int2Num(70) /\ d = Int2Num(80)) =>
                subB /\ ~InResponse(r, row)

\* A row whose price 95 is 95% of its four averages, all 100, and which has
\* no monthly average, has been filtered under rule 4 and dropped: neither
\* (a) nor (c) applies to it.
C13_Witness ==
  \E r \in Reqs :
    /\ AnsweredUngated(r) /\ params[r].conditionId = Int2Num(4)
    /\ Len(snapshot[r].rows) = 1 /\ Len(resp[r].data) = 0
    /\ snapshot[r].rows[1].price = Int2Num(95)
    /\ \A f \in {"ma20_d", "ma60_d", "ma120_d", "ma240_d"} :
         snapshot[r].rows[1][f] = Int2Num(100)
    /\ snapshot[r].rows[1].ma120_m = NULL

\* The filter request r has answered with a success response.
Answered(r) == kind[r] = "filter" /\ pc[r] = "done" /\ resp[r].status = 200
\* The month gate lets the row through: no minimum, or the count reaches it.
MonthsEnough(row, q) == q.monthlyMin = 0 \/ row.candle_count_m.n >= q.monthlyMin

\* C14 as stated: no row of any filter response has rsi14 absent, or below
\* the floor of its request.
C14_NoRowBelowFloor ==
  \A r \in Reqs :
    Answered(r) =>
      \A i \in 1..Len(resp[r].data) :
        LET rsi == resp[r].data[i].rsi14
        IN /\ rsi.k = "num"
           /\ params[r].rsi.k = "num" =>
                rsi.n * params[r].rsi.d >= params[r].rsi.n * rsi.d

\* C14, amended: the floor is 50 when the caller gives no rsi.  When the floor
\* is a finite number, a row whose rsi14 is absent or below it is not in the
\* response, under every rule and whether or not the rule passes the row.
\* When the rsi the caller gives is no finite number the gate is off: a row is
\* in the response if and only if the month gate and the rule pass it, its
\* rsi14 absent or not.
C14_RsiGate ==
  \A r \in Reqs :
    Answered(r) =>
      LET q == params[r]
      IN /\ ~q.rsiGiven => q.rsi = Int2Num(50)
         /\ \A i \in 1..Len(snapshot[r].rows) :
              LET row == snapshot[r].rows[i]
                  rsi == row.rsi14
              IN IF q.rsi.k = "num"
                   THEN (rsi.k # "num" \/ rsi.n * q.rsi.d < q.rsi.n * rsi.d)
                          => ~InResponse(r, row)
                   ELSE InResponse(r, row) <=>
                          MonthsEnough(row, q) /\ passesCondition(row, q.conditionId)

\* A request without rsi has dropped a row whose rsi14 is 49.99, though rule 1
\* passes the row and the month gate is off.
C14_Witness ==
  \E r \in Reqs :
    /\ Answered(r) /\ ~params[r].rsiGiven /\ params[r].monthlyMin = 0
    /\ params[r].conditionId = Int2Num(1)
    /\ Len(snapshot[r].rows) = 1 /\ Len(resp[r].data) = 0
    /\ snapshot[r].rows[1].rsi14 = Num(4999, 100)
    /\ passesCondition(snapshot[r].rows[1], Int2Num(1))

\* The RSI gate lets the row through: the floor is no finite number, or the
\* row's rsi14 is present and reaches it.
RsiEnough(row, q) ==
  \/ q.rsi.k # "num"
  \/ row.rsi14.k = "num" /\ row.rsi14.n * q.rsi.d >= q.rsi.n * row.rsi14.d

\* C15: with monthlyMin 0 a row is in the response exactly when the RSI gate
\* and the rule pass it, whatever its month count; with monthlyMin > 0 no row
\* of the response has a month count below monthlyMin, and every row whose
\* count reaches monthlyMin and which the RSI gate and the rule pass is in
\* the response.
C15_MonthGate ==
  \A r \in Reqs :
    Answered(r) =>
      LET q == params[r]
      IN \A i \in 1..Len(snapshot[r].rows) :
           LET row == snapshot[r].rows[i]
               others == RsiEnough(row, q) /\ passesCondition(row, q.conditionId)
           IN IF q.monthlyMin = 0
                THEN InResponse(r, row) <=> others
                ELSE /\ InResponse(r, row) => row.candle_count_m.n >= q.monthlyMin
                     /\ row.candle_count_m.n >= q.monthlyMin /\ others
                          => InResponse(r, row)

\* A request with monthlyMin 2 has kept a row whose month count is exactly 2.
C15_Witness ==
  \E r \in Reqs :
    /\ Answered(r) /\ params[r].monthlyMin = 2
    /\ Len(snapshot[r].rows) = 1 /\ Len(resp[r].data) = 1
    /\ snapshot[r].rows[1].candle_count_m = Int2Num(2)

\* The series a row of the series market was computed from.
KindOf(row) == CHOOSE series \in SeriesKinds : SeriesKey(series) = row.symbol.s
\* The number of daily samples of a series: its candles that hold a number.
Samples(series) == IF series[1] = "GAP" THEN series[2] - 1 ELSE series[2]
\* The sum of the p newest samples of a series of at least p samples, from
\* the closed form of its shape (no "MIX" series is that long).
SumNewest(series, p) ==
  CASE series[1] = "UP" -> p * series[2] - (p * (p - 1)) \div 2
    [] series[1] = "DOWN" -> (p * (p + 1)) \div 2
    [] series[1] = "FLAT" -> 7 * p
    [] series[1] = "GAP" -> (p + 1) * series[2] - ((p + 1) * p) \div 2 - 11
    [] OTHER -> 0
\* The rows of the series market a build has pushed.
SeriesRows == UNION {ToSet(rows[r]) : r \in Reqs}
\* The moving averages of a row, by period.
AveragesOf(row) ==
  (20 :> row.ma20_d) @@ (60 :> row.ma60_d) @@ (120 :> row.ma120_d)
    @@ (240 :> row.ma240_d)

\* C16: in every row a build pushes, for p in 20, 60, 120, 240, the average
\* over p is absent if and only if the symbol's series has fewer than p
\* samples, and otherwise p times the average is the sum of the p newest
\* samples.
C16_MovingAverage ==
  \A row \in SeriesRows :
    \A p \in DOMAIN AveragesOf(row) :
      LET ma == AveragesOf(row)[p]
          series == KindOf(row)
      IN /\ ma = NULL <=> Samples(series) < p
         /\ Samples(series) >= p =>
              ma.k = "num" /\ ma.n * p = SumNewest(series, p) * ma.d

\* A build has pushed the row of a series of exactly 20 samples, one of its
\* 21 candles holding no number: ma20 is 11 and ma60 is absent.
C16_Witness ==
  \E row \in SeriesRows :
    /\ KindOf(row) = <<"GAP", 21>>
    /\ row.ma20_d = Int2Num(11) /\ row.ma60_d = NULL

\* C17 as stated: the row of the series 100, 99, ..., 1 (newest first) has
\* ma20 defined and rsi14 = 0.
C17_ScenarioARsiZero ==
  \A row \in SeriesRows :
    KindOf(row) = <<"UP", 100>> => row.ma20_d # NULL /\ row.rsi14 = Int2Num(0)

\* C17, amended: the row of the series 100, 99, ..., 1 (newest first, so
\* every close is above the one before it) has ma20 defined, 90.5, and
\* rsi14 = 100; rsi14 = 0 is the value of the series 1, 2, ..., 100 (newest
\* first), whose closes fall day after day.
C17_ScenarioA ==
  \A row \in SeriesRows :
    /\ KindOf(row) = <<"UP", 100>> =>
         row.ma20_d = Num(181, 2) /\ row.rsi14 = Int2Num(100)
    /\ KindOf(row) = <<"DOWN", 100>> =>
         row.ma20_d = Num(21, 2) /\ row.rsi14 = Int2Num(0)

\* A build has pushed the row of the series 100, 99, ..., 1, its price 100.
C17_Witness ==
  \E row \in SeriesRows :
    /\ KindOf(row) = <<"UP", 100>> /\ row.price = Int2Num(100)
    /\ row.rsi14 # NULL

\* C18: in every row a build pushes, rsi14 is absent if and only if the
\* series has fewer than 15 samples; when present it lies in [0, 100], and it
\* is exactly 100 for a series none of whose closes is below the one before
\* it (the rising and the flat series).
C18_RsiRange ==
  \A row \in SeriesRows :
    LET rsi == row.rsi14
        series == KindOf(row)
    IN /\ rsi = NULL <=> Samples(series) < 15
       /\ rsi # NULL =>
            rsi.k = "num" /\ 0 <= rsi.n /\ rsi.n <= 100 * rsi.d
       /\ Samples(series) >= 15 /\ series[1] \in {"UP", "FLAT", "GAP"} =>
            rsi = Int2Num(100)

\* A build has pushed the row of a series of 16 closes that go up and down:
\* its rsi14 lies strictly between 0 and 100.
C18_Witness ==
  \E row \in SeriesRows :
    /\ KindOf(row) = <<"MIX", 16>>
    /\ row.rsi14.k = "num"
    /\ 0 < row.rsi14.n /\ row.rsi14.n < 100 * row.rsi14.d

\* A writeFileSync of the export file is in progress.
ExportBusy == io.owner # 0 /\ pc[io.owner] = "w_csv"
\* The indicator cells of an export line: their place in the line, the field
\* they show and its number of decimals.
ExportCells ==
  {<<3, "rsi14", 2>>, <<4, "ma20_d", 0>>, <<5, "ma60_d", 0>>, <<6, "ma120_d", 0>>,
   <<7, "ma240_d", 0>>, <<8, "ma120_m", 0>>}
\* The export file of disk d is the complete output for the response rows
\* `data`: the header line, then one line of nine cells per row, a line break
\* between two lines, every absent indicator shown as N/A, and nothing else.
ExportOf(d, data) ==
  LET f == d[CSV_PATH].data
      n == Len(data)
      at(i, j) == f[2 + 10 * (i - 1) + j]
  IN /\ d[CSV_PATH].exists
     /\ Len(f) = 2 + 9 * n + (IF n = 0 THEN 0 ELSE n - 1)
     /\ f[1] = csvHeader /\ f[2] = P("\n")
     /\ \A i \in 1..n :
          /\ at(i, 1) = data[i].market /\ at(i, 2) = data[i].price
          /\ at(i, 9) = data[i].candle_count_m
          /\ i < n => at(i, 10) = P("\n")
          /\ \A c \in ExportCells :
               IF data[i][c[2]].k = "num"
                 THEN at(i, c[1]) = toFixed(data[i][c[2]], c[3])
                 ELSE at(i, c[1]) = Str("N/A")

\* C19 as stated: in every state the export file, if present, is the complete
\* output of one filter request.
C19_ExportAlwaysComplete ==
  disk[CSV_PATH].exists =>
    \E r \in Reqs : kind[r] = "filter" /\ ExportOf(disk, filtered[r])

\* C19, amended: whenever no write of the export file is in progress, the
\* export file, if present, is the complete output of one filter request that
\* has answered; and when a filter request answers, the file is the complete
\* output of its own response rows, with nothing of an earlier request.
C19_ExportAfterWrite ==
  [][/\ (~ExportBusy' /\ disk'[CSV_PATH].exists) =>
          \E r \in Reqs : Answered(r)' /\ ExportOf(disk', resp'[r].data)
     /\ \A r \in Reqs :
          (pc[r] = "w_csv" /\ pc'[r] = "done") =>
            /\ Answered(r)'
            /\ resp'[r].count = Len(resp'[r].data)
            /\ ExportOf(disk', resp'[r].data)]_vars

\* Two filter requests have answered with different rows; the export file is
\* the output of one of them, a row without ma120 in it.
C19_Witness ==
  \E r1, r2 \in Reqs :
    /\ Answered(r1) /\ Answered(r2)
    /\ resp[r1].data # resp[r2].data /\ Len(resp[r1].data) > 0
    /\ ExportOf(disk, resp[r2].data)
    /\ \E i \in 1..Len(resp[r2].data) : resp[r2].data[i].ma120_d = NULL

\* The build of request r has got its quotes and filled its queue.
Queued(r) == tick[r].kind = "json" /\ tick[r].status = "0000"

\* C20: the symbols a build puts in its work queue are exactly the keys of
\* the quote feed that are not "date", not one of USDC, USDT, USD1, USDE, and
\* whose closing price is a number with 100 * price >= 1, each once, whatever
\* their 24h volume is; every one of them is in the queue or has been fetched.
C20_PreFilter ==
  \A r \in Reqs :
    Queued(r) =>
      LET data == tick[r].data
          wanted ==
            {data[i].key : i \in
               {j \in 1..Len(data) :
                  /\ data[j].key \notin {"date", "USDC", "USDT", "USD1", "USDE"}
                  /\ data[j].closing_price.k = "num"
                  /\ 100 * data[j].closing_price.n >= data[j].closing_price.d}}
      IN /\ ToSet(eligible[r]) = wanted
         /\ Len(eligible[r]) = Cardinality(wanted)
         /\ ToSet(queue[r]) \cup BagToSet(fetched[r]) = wanted

\* A build has queued the symbol whose price is exactly 0.01 and whose volume
\* is 0, next to a series symbol without volume; the feed's other ten keys,
\* all with a volume of 1000000, are left out.
C20_Witness ==
  \E r \in Reqs :
    /\ Queued(r) /\ Len(tick[r].data) = 12
    /\ Len(eligible[r]) = 2 /\ eligible[r][2] = "EDGE"
    /\ QuoteOf(tick[r].data, "EDGE").closing_price = Num(1, 100)
    /\ QuoteOf(tick[r].data, "EDGE").acc_trade_value_24H = Int2Num(0)
    /\ QuoteOf(tick[r].data, "LOW").acc_trade_value_24H = Int2Num(1000000)

\* A call of buildSnapshot by request r has begun and has not returned.
Building(r) == pc[r] \in {"ticker", "workers", "w_tmp"}

\* C21: at most one snapshot build is running at any time: a refresh or a
\* filter request without a snapshot that arrives during a build starts no
\* second build.
C21_OneBuildAtATime == Cardinality({r \in Reqs : Building(r)}) <= 1

\* The build of request r has passed Promise.all and made its snapshot.
Completed(r) == nwrites[r] > 0

\* How many candles of a series hold a number as their close.
ValidCloses(data) == Cardinality({i \in 1..Len(data) : data[i].k = "num"})

\* The candle fetch answered without error, with status "0000" and at least
\* two valid closes.
Usable(c) == c.kind = "json" /\ c.status = "0000" /\ ValidCloses(c.data) >= 2

\* The queued symbols of build r whose candle response, so far, is usable.
UsableSymbols(r) ==
  {s \in ToSet(eligible[r]) : \E a \in answers[r] : a[1] = s /\ Usable(a[2])}

\* C22: the set of rows of a build is decided by the upstream's responses
\* alone: at every moment the rows pushed are those of the queued symbols
\* whose series came without error, with success status and at least 2 valid
\* closes; in a completed build every queued symbol got one response and the
\* snapshot holds one row for each such symbol and no other.  The order of
\* the rows is not said.
C22_RowSetDecided ==
  \A r \in Reqs :
    /\ SymbolsOf(rows[r]) = UsableSymbols(r)
    /\ Completed(r) =>
         /\ \A s \in ToSet(eligible[r]) :
              Cardinality({a \in answers[r] : a[1] = s}) = 1
         /\ SymbolsOf(snapshot[r].rows) = UsableSymbols(r)
         /\ Len(snapshot[r].rows) = Cardinality(UsableSymbols(r))

\* Two symbols have rows, in the reverse of the order they were queued in;
\* a third came back with a single close and a fourth with a failure status.
C22_Witness ==
  /\ Completed(1)
  /\ Len(snapshot[1].rows) = 2
  /\ snapshot[1].rows[1].symbol = Str("P16")
  /\ snapshot[1].rows[2].symbol = Str("P01")
  /\ <<"P02", Body("0000", Closes1)>> \in answers[1]
  /\ <<"P03", Body("5500", <<>>)>> \in answers[1]

\* The build of request r ended by throwing the upstream error: the handler
\* answered 500 and nothing was written.
BuildFailed(r) == pc[r] = "done" /\ resp[r] = ErrorResp /\ nwrites[r] = 0

\* The build of request r ended by writing its snapshot to the snapshot file.
BuildWrote(r) ==
  /\ pc[r] = "built" /\ nwrites[r] = 1
  /\ disk[SNAPSHOT_PATH] = FileOf(JSONstringify(snapshot[r]))

\* C23: with every network call settling, a build that has begun ends, by
\* failing with the upstream error or by writing its snapshot; and the work of
\* its workers is finite: every symbol queued is either still in the queue or
\* was taken off it by one fetch, none is put back or fetched again.
C23_BuildTerminates ==
  /\ \A r \in Reqs : (pc[r] = "ticker") ~> (BuildFailed(r) \/ BuildWrote(r))
  /\ [](\A r \in Reqs :
          Len(queue[r]) + BagCardinality(fetched[r]) = Len(eligible[r]))

\* A build over more symbols than workers has written its snapshot.
C23_Witness ==
  /\ BuildWrote(1)
  /\ Len(eligible[1]) > Concurrency
  /\ BagCardinality(fetched[1]) = Len(eligible[1])

\* Request r is a refresh that was answered with success.
Refreshed(r) == kind[r] = "refresh" /\ pc[r] = "done" /\ resp[r].status = 200

\* C24: every snapshot a build handed to writeSnapshot, and the snapshot read
\* back from the file a build has written, has count = number of rows; the
\* updatedAt and count a refresh returns are those of the snapshot its own
\* build wrote, made of the rows that build pushed; and the count of a filter
\* response is the number of rows it returns.
C24_CountsAgree ==
  /\ \A s \in written : s.count = Int2Num(Len(s.rows))
  /\ lastWriter # 0 =>
       LET snap == readSnapshot(disk)
       IN snap # NoSnapshot /\ snap.count = Int2Num(Len(snap.rows))
  /\ \A r \in Reqs :
       /\ Refreshed(r) =>
            /\ nwrites[r] = 1
            /\ resp[r].count = Int2Num(Len(rows[r]))
            /\ resp[r].updatedAt.k = "str"
            /\ MakeSnapshot(resp[r].updatedAt.n, rows[r]) \in written
       /\ Answered(r) => resp[r].count = Len(resp[r].data)

\* A refresh has returned the count of its two rows and a filter request has
\* returned a row.
C24_Witness ==
  \E r1, r2 \in Reqs :
    /\ Refreshed(r1) /\ resp[r1].count = Int2Num(2)
    /\ Answered(r2) /\ resp[r2].count >= 1
    /\ lastWriter = r1

\* The i-th newest valid close of a series, i from 1.
NewestAt(series, i) ==
  LET at == series[2] + 1 - i
  IN CASE series[1] = "UP" -> at
       [] series[1] = "DOWN" -> i
       [] series[1] = "FLAT" -> 7
       [] series[1] = "GAP" -> IF at > 11 THEN at ELSE at - 1
       [] OTHER -> IF at % 3 = 0 THEN 12 ELSE IF at % 3 = 1 THEN 10 ELSE 13

\* C25: for every row a build pushes, its series having n >= 2 valid closes
\* newest first, the monthly proxy is the closes at indices 0, 30, 60, ...:
\* the month count of the row is ceil(n / 30) >= 1, the first proxy element is
\* the row's price, and the monthly average is present if and only if the
\* month count is at least 120, being then the mean of the 120 newest proxy
\* elements.
C25_MonthlyProxy ==
  \A row \in SeriesRows :
    LET series == KindOf(row)
        n == Samples(series)
        months == (n + MonthlyStep - 1) \div MonthlyStep
        proxy == MonthlyPrices(DailyPrices(SeriesData(series)))
    IN /\ n >= 2
       /\ months >= 1 /\ row.candle_count_m = Int2Num(months)
       /\ Len(proxy) = months
       /\ \A j \in 1..months : proxy[j] = Int2Num(NewestAt(series, 30 * (j - 1) + 1))
       /\ proxy[1] = row.price
       /\ row.ma120_m # NULL <=> months >= 120
       /\ months >= 120 /\ series[1] = "UP" =>
            /\ row.ma120_m.k = "num"
            /\ row.ma120_m.n * 120 = (120 * n - 30 * 7140) * row.ma120_m.d

\* A build has pushed the row of a series of 3571 closes: 120 months, and a
\* monthly average of 1786.
C25_Witness ==
  \E row \in SeriesRows :
    /\ KindOf(row) = <<"UP", 3571>>
    /\ row.candle_count_m = Int2Num(120)
    /\ row.ma120_m = Int2Num(1786)
    /\ row.price = Int2Num(3571)

\* The quote feed's answer to request r made buildSnapshot throw.
QuoteFailed(t) == t.kind = "reject" \/ (t.kind = "json" /\ t.status # "0000")

\* C26: a filter request that found no snapshot and whose build fails with
\* the upstream error ends with the failure response, and none of its steps
\* creates or changes a file: not the step it arrives with, not the step its
\* quote fetch fails in, and it takes no step after that.
C26_FailedMissLeavesFiles ==
  [][\A r \in Reqs :
       /\ pc[r] = "idle" /\ kind'[r] = "filter" /\ pc'[r] = "ticker"
            => disk' = disk
       /\ pc[r] = "ticker" /\ kind[r] = "filter" /\ QuoteFailed(tick'[r])
            => /\ pc'[r] = "done" /\ resp'[r] = ErrorResp
               /\ disk' = disk
               /\ nwrites'[r] = 0 /\ filtered'[r] = <<>>
       /\ pc[r] = "done" /\ Missed(r) /\ QuoteFailed(tick[r])
            => /\ pc'[r] = "done" /\ resp'[r] = ErrorResp
               /\ nwrites'[r] = 0 /\ filtered'[r] = <<>>]_vars

\* A filter request found a snapshot file that does not parse, its quote feed
\* answered with a failure status, and it was answered 500; the file is as it
\* was and there is no export file.
C26_Witness ==
  \E r \in Reqs :
    /\ Missed(r) /\ pc[r] = "done" /\ resp[r] = ErrorResp
    /\ tick[r].kind = "json" /\ tick[r].status = "5500"
    /\ file0.exists /\ disk[SNAPSHOT_PATH] = file0
    /\ ~disk[CSV_PATH].exists /\ ~disk[TmpPath].exists

\* The time in the updatedAt of the snapshot in the snapshot file.
UpdatedAt(d) == readSnapshot(d).updatedAt.n

\* C27: with builds running concurrently, the updatedAt of the snapshot file
\* never decreases from one write to the next.  A build reads the clock and
\* writes and renames without another request running in between: while it
\* writes, its timestamp is the last clock reading; and once a build has
\* written, the file holds the snapshot of the build that renamed last.
C27_UpdatedAtNeverDecreases ==
  [][/\ disk'[SNAPSHOT_PATH] # disk[SNAPSHOT_PATH] =>
          /\ Readable(disk')
          /\ Readable(disk) => UpdatedAt(disk) <= UpdatedAt(disk')
          /\ UpdatedAt(disk') = now'
          /\ pc[lastWriter'] = "w_tmp" /\ pc'[lastWriter'] = "built"
     /\ \A r \in Reqs :
          pc'[r] = "w_tmp" =>
            /\ io'.owner = r
            /\ snapshot'[r].updatedAt = IsoString(now')
            /\ \A o \in Reqs \ {r} : pc'[o] = pc[o]
     /\ lastWriter' # 0 =>
          disk'[SNAPSHOT_PATH] = FileOf(JSONstringify(snapshot'[lastWriter']))]_vars

\* Two builds have written, the first at clock reading 1 and the one that
\* renamed last at clock reading 2, which is what the file holds.
C27_Witness ==
  \E r1, r2 \in Reqs :
    /\ r1 # r2 /\ nwrites[r1] = 1 /\ nwrites[r2] = 1
    /\ lastWriter = r2 /\ pc[r2] = "built"
    /\ snapshot[r1].updatedAt = IsoString(1)
    /\ snapshot[r2].updatedAt = IsoString(2)
    /\ UpdatedAt(disk) = 2

\* C28: a build whose quote fetch succeeded leaves its workers only to write,
\* and its write replaces the snapshot file by the snapshot of the rows it
\* pushed, also when these are none (nothing queued, or every candle fetch
\* failed): the file then holds count 0.  A filter request that arrives while
\* the file holds a snapshot, an empty one too, starts no build, and from an
\* empty snapshot it returns no rows.
C28_EmptySnapshotReplaces ==
  [][\A r \in Reqs :
       /\ pc[r] = "workers" /\ pc'[r] # "workers" =>
            pc'[r] = "w_tmp" /\ nwrites'[r] = nwrites[r] + 1
       /\ pc[r] = "w_tmp" /\ pc'[r] # "w_tmp" =>
            /\ pc'[r] = "built"
            /\ disk'[SNAPSHOT_PATH] = FileOf(JSONstringify(MakeSnapshot(now, rows[r])))
            /\ readSnapshot(disk').count = Int2Num(Len(rows[r]))
            /\ readSnapshot(disk').rows = rows[r]
       /\ pc[r] = "idle" /\ kind'[r] = "filter" /\ Readable(disk) =>
            /\ nbuilds'[r] = 0 /\ pc'[r] = "w_csv"
            /\ readSnapshot(disk).rows = <<>> => filtered'[r] = <<>>
       /\ pc'[r] = "done" /\ kind'[r] = "filter" /\ nbuilds'[r] = 0
            /\ snapshot'[r].rows = <<>> =>
            resp'[r] = OkResp(snapshot'[r].updatedAt, 0, <<>>)]_vars

\* A refresh that queued no symbol has replaced the snapshot the server
\* started with by one with count 0, and a filter request served from that
\* file has returned no rows.
C28_Witness ==
  \E r1, r2 \in Reqs :
    /\ Refreshed(r1) /\ tick[r1].data = BareQuotes /\ eligible[r1] = <<>>
    /\ resp[r1].count = Int2Num(0)
    /\ file0 = FileOf(JSONstringify(PrevSnapshot("small")))
    /\ readSnapshot(disk) = MakeSnapshot(2, <<>>)
    /\ ServedFromFile(r2) /\ Answered(r2)
    /\ snapshot[r2] = MakeSnapshot(2, <<>>)
    /\ resp[r2].count = 0 /\ resp[r2].data = <<>>

\* The conditionId values that name a rule.
RuleIds == {Int2Num(1), Int2Num(2), Int2Num(3), Int2Num(4)}

\* What the one rule a conditionId names says of a row; no other rule is
\* looked at.
RuleSays(id, row) ==
  CASE id = Int2Num(1) -> Near(row.price, row.ma60_d)
    [] id = Int2Num(2) -> Near(row.price, row.ma120_d)
    [] id = Int2Num(3) -> Aligned(row.ma20_d, row.ma60_d, row.ma120_d)
    [] id = Int2Num(4) ->
         /\ ~(row.ma120_m # NULL /\ RLe(row.price, row.ma120_m))
         /\ ~Selloff(row.price, row.ma20_d, row.ma60_d, row.ma120_d, row.ma240_d)
         /\ ~Reversed(row.ma20_d, row.ma60_d, row.ma120_d, row.ma240_d)

\* C29: a filter request whose conditionId, as parsed, is none of 1, 2, 3, 4
\* (another number, or no number) returns every snapshot row that passes the
\* month gate and the RSI gate; one whose conditionId is 1, 2, 3 or 4 returns
\* the rows that pass the gates and that one rule, whatever the other three
\* rules say of them.  A missing or empty conditionId is rule 1.
C29_UnknownRulePassesAll ==
  \A r \in Reqs :
    Answered(r) =>
      LET q == params[r]
      IN /\ q.conditionId.k \in {"num", "nan"}
         /\ \A i \in 1..Len(snapshot[r].rows) :
              LET row == snapshot[r].rows[i]
                  gates == MonthsEnough(row, q) /\ RsiEnough(row, q)
              IN IF q.conditionId \in RuleIds
                   THEN InResponse(r, row) <=> gates /\ RuleSays(q.conditionId, row)
                   ELSE InResponse(r, row) <=> gates

\* A request with conditionId 5 has returned the row that fails each of the
\* four rules.
C29_Witness ==
  /\ Answered(1) /\ params[1].conditionId = Int2Num(5)
  /\ Len(snapshot[1].rows) = 1 /\ Len(resp[1].data) = 1
  /\ \A id \in RuleIds : ~RuleSays(id, snapshot[1].rows[1])

====
